---- MODULE Spec2Model ----
(***************************************************************************)
(* A model of the kb-city-2000 simulation core: the UI store's speed       *)
(* state, the Game component's monthly interval timer and tick callback,   *)
(* the DisasterSystem (fire, tornado, earthquake), the TrafficRenderer, the  *)
(* SaveManager and the monthly simulation of a zoned lot and the budget.    *)
(***************************************************************************)
EXTENDS Integers, Sequences, FiniteSets, TLC

VARIABLES
    \* ---- UI store (uiStore) ----
    hasGameStarted, gameSpeed, isPaused, previousSpeed, isScreensaverMode,
    \* ---- game store ----
    isInitialized, tiles, powerPlants, waterPumps,
    \* ---- Game component (React) ----
    mounted,              \* whether <Game/> is mounted
    effectDeps,           \* <<gameSpeed, isInitialized>> of the last committed render
    hasCleanup,           \* whether the last timer effect run returned a cleanup
    simulationTimerRef,   \* simulationTimerRef.current (0 is null)
    timers,               \* the interval timers alive in the event loop
    tickPc,               \* position inside the tick callback (0: not running)
    ticksRun,             \* number of tick callbacks started
    \* ---- DisasterSystem ----
    activeDisasters,      \* Map id -> ActiveDisaster
    disasterIdCounter, currentGameTick,
    now,                  \* Date.now()
    damage,               \* the DisasterDamage returned by the last update
    spreadChance,         \* FIRE_CONFIG.spreadChance in percent
    \* ---- history ----
    issuedIds,            \* every id generateId has returned
    lastCall,             \* the last DisasterSystem method called
    history,              \* per disaster id: what it has reported so far
    tickLog,              \* the steps the current tick callback has run
    \* ---- TrafficRenderer ----
    vehicles, nextVehicleId, lastSpawnTime,
    perfNow,              \* performance.now() in ms
    roadTiles,            \* the road tiles the Game passes to update
    population,           \* the population the Game passes to update
    trafficLog,           \* what the last traffic update did
    \* ---- SaveManager ----
    localStorage,         \* the browser's localStorage: the save index and the saves
    dateNow,              \* Date.now() as the SaveManager reads it
    saveLog,              \* what the SaveManager has been asked and has answered
    \* ---- game store: the monthly simulation ----
    lot,                  \* a zoned tile of the grid, followed month by month
    budget, isInDeficit,
    lastAbandonmentEvents,
    notices,              \* the notifications the last tick has shown
    monthLog,             \* the readings and the answers of the months so far
    \* ---- UI store: overlay and tool, as the key handlers of the HUD set them ----
    activeOverlay, selectedTool,
    keyLog,               \* the last key pressed and the store before it
    \* ---- UI store and Notification component ----
    notification,         \* the notification of the store (0: null), by its number
    isVisible, isExiting,
    autoDismiss,          \* the pending auto-dismiss timeout of the effect
    exitTimers,           \* the pending timeouts of handleDismiss
    noteClock,            \* the time in ms
    noteLog,              \* when each notification was shown, and the last clearing
    \* ---- AudioManager ----
    isMuted, musicVolume, sfxVolume, isPreloaded,
    music,                \* bgMusic and menuMusic: volume and paused of each element
    soundVolume,          \* the volume of the preloaded sound effects
    fadeIntervals,        \* the running fade of each music element
    playPromises,         \* the pending play() promises that start a fade-in
    crossfadeTimers,      \* the pending timeouts of crossfadeToGameMusic
    audioPrefs,           \* the audio preferences in localStorage
    audioLog              \* the calls so far and whether the last one played a sound

uiVars == <<hasGameStarted, gameSpeed, isPaused, previousSpeed, isScreensaverMode>>
gameVars == <<isInitialized, tiles, powerPlants, waterPumps>>
compVars == <<mounted, effectDeps, hasCleanup, simulationTimerRef, timers, tickPc, ticksRun,
              tickLog>>
disasterVars == <<activeDisasters, disasterIdCounter, currentGameTick, now, damage,
                  spreadChance, issuedIds, lastCall, history>>
sysVars == <<activeDisasters, disasterIdCounter, currentGameTick, now, damage,
             issuedIds, lastCall, history>>
trafficVars == <<vehicles, nextVehicleId, lastSpawnTime, perfNow, roadTiles, population,
                 trafficLog>>
\* The state outside the game loop and the DisasterSystem.
saveVars == <<localStorage, dateNow, saveLog>>
\* The state the TrafficRenderer never touches, besides the game loop's.
monthVars == <<lot, budget, isInDeficit, lastAbandonmentEvents, notices, monthLog>>
\* The state the SaveManager never touches, besides the above.
hudVars == <<activeOverlay, selectedTool, keyLog>>
\* The state the monthly simulation never touches, besides the above.
noteVars == <<notification, isVisible, isExiting, autoDismiss, exitTimers, noteClock,
              noteLog>>
\* The state the key handlers never touch, besides the above.
audioVars == <<isMuted, musicVolume, sfxVolume, isPreloaded, music, soundVolume,
               fadeIntervals, playPromises, crossfadeTimers, audioPrefs, audioLog>>
\* The state the notification never touches, besides the above.
beyondNote == <<audioVars>>
beyondHud == <<noteVars, beyondNote>>
beyondMonth == <<hudVars, beyondHud>>
beyondSave == <<monthVars, beyondMonth>>
beyondTraffic == <<saveVars, beyondSave>>
beyondLoop == <<trafficVars, beyondTraffic>>
vars == <<uiVars, gameVars, compVars, disasterVars, beyondLoop>>

----------------------------------------------------------------------------
(* Bounds of the model *)

\* The side of the square map. The program's map is 50 x 50; the model runs the
\* same code on a small map.
MAP_SIZE == 4

\* The number of disasters one DisasterSystem instance starts in a run.
MaxStarts == 2

\* The number of monthly tick callbacks in a run of the game loop.
MaxTicks == 3

\* The largest value of the clock Date.now() in a run.
MaxNow == 1

\* The largest value of performance.now(), in ms, in a run of the traffic.
MaxTime == 2400

\* The number of times the roads or the population change in a run of the traffic.
MaxCityChanges == 2

\* The largest value of performance.now(), in ms, in a run of the busy street.
MaxTimeBusy == 4200

\* The largest population the target vehicle count is computed for.
MaxPopulation == 21000

\* The calls of the SaveManager the model follows.
MaxSaveOps == 2

\* The monthly ticks the model follows at a lot.
MaxMonths == 5

\* The notifications shown in a run, the clicks on the close button, and the
\* time a run takes, in ms.
MaxNotes == 2
MaxClicks == 1
MaxNoteTime == 4400

\* The calls of the AudioManager's methods in a run.
MaxAudioOps == 3

----------------------------------------------------------------------------
(* UI store: src/unnamed/part_002 *)

GameSpeed == {"paused", "normal", "fast"}

UIInit ==
    /\ hasGameStarted = FALSE
    /\ gameSpeed = "normal"
    /\ isPaused = FALSE
    /\ previousSpeed = "normal"
    /\ isScreensaverMode = FALSE

\* What the App component renders for a store state.
SplashShown == ~hasGameStarted /\ ~isScreensaverMode
HUDShown == hasGameStarted /\ ~isScreensaverMode

startGame ==
    /\ SplashShown
    /\ hasGameStarted' = TRUE
    /\ UNCHANGED <<gameSpeed, isPaused, previousSpeed, isScreensaverMode>>

\* A setGameSpeed that remembers the current speed whatever it is.
MutSetGameSpeedAlwaysRemembers(speed) ==
    /\ HUDShown
    /\ gameSpeed' = speed
    /\ isPaused' = (speed = "paused")
    /\ previousSpeed' = IF speed = "paused" THEN gameSpeed ELSE previousSpeed
    /\ UNCHANGED <<hasGameStarted, isScreensaverMode>>

setGameSpeed(speed) ==
    /\ HUDShown
    /\ IF speed = "paused" /\ gameSpeed # "paused"
       THEN /\ gameSpeed' = speed
            /\ isPaused' = TRUE
            /\ previousSpeed' = gameSpeed
       ELSE /\ gameSpeed' = speed
            /\ isPaused' = (speed = "paused")
            /\ UNCHANGED previousSpeed
    /\ UNCHANGED <<hasGameStarted, isScreensaverMode>>

\* A togglePause that resumes without clearing the flag.
MutTogglePauseKeepsFlag ==
    /\ HUDShown
    /\ IF isPaused
       THEN /\ gameSpeed' = previousSpeed
            /\ UNCHANGED <<isPaused, previousSpeed>>
       ELSE /\ gameSpeed' = "paused"
            /\ isPaused' = TRUE
            /\ previousSpeed' = gameSpeed
    /\ UNCHANGED <<hasGameStarted, isScreensaverMode>>

togglePause ==
    /\ HUDShown
    /\ IF isPaused
       THEN /\ gameSpeed' = previousSpeed
            /\ isPaused' = FALSE
            /\ UNCHANGED previousSpeed
       ELSE /\ gameSpeed' = "paused"
            /\ isPaused' = TRUE
            /\ previousSpeed' = gameSpeed
    /\ UNCHANGED <<hasGameStarted, isScreensaverMode>>

startScreensaver ==
    /\ SplashShown
    /\ isScreensaverMode' = TRUE
    /\ hasGameStarted' = TRUE
    /\ gameSpeed' = "fast"
    /\ isPaused' = FALSE
    /\ UNCHANGED previousSpeed

exitScreensaver ==
    /\ isScreensaverMode
    /\ isScreensaverMode' = FALSE
    /\ hasGameStarted' = FALSE
    /\ gameSpeed' = "normal"
    /\ UNCHANGED <<isPaused, previousSpeed>>

----------------------------------------------------------------------------
(* Game component, simulation timer effect: src/unnamed/part_000 *)

\* clearInterval(simulationTimerRef.current); simulationTimerRef.current = null
\* on the pair r = [ref, timers].
MutClearTimerKeepsInterval(r) == [ref |-> 0, timers |-> r.timers]
ClearTimer(r) ==
    IF r.ref # 0 THEN [ref |-> 0, timers |-> r.timers \ {r.ref}] ELSE r

\* setInterval returns an id no live timer has.
FreshTimerId(live) == CHOOSE i \in 1..(Cardinality(live) + 1) : i \notin live

\* The body of the timer effect, run with the speed and the initialised flag of
\* the render it belongs to. Returns [ref, timers, cleanup].
TimerEffect(r, speed, init) ==
    LET c == ClearTimer(r)
    IN  IF speed = "paused" \/ ~init
        THEN [ref |-> c.ref, timers |-> c.timers, cleanup |-> FALSE]
        ELSE LET id == FreshTimerId(c.timers)
             IN  [ref |-> id, timers |-> c.timers \cup {id}, cleanup |-> TRUE]

\* The cleanup the effect returned, when it returned one.
TimerCleanup(r, registered) == IF registered THEN ClearTimer(r) ELSE r

----------------------------------------------------------------------------
(* Tiles and the inputs of the DisasterSystem: src/src/types/index.ts *)

Coords == 0..(MAP_SIZE - 1)
Keys == Coords \X Coords

InMap(x, y) == x >= 0 /\ x < MAP_SIZE /\ y >= 0 /\ y < MAP_SIZE

Grass ==
    [terrain |-> "grass", zone |-> "none", developmentProgress |-> 0,
     hasRoad |-> FALSE, hasPowerLine |-> FALSE, hasWaterPipe |-> FALSE,
     population |-> 0, jobs |-> 0]
Water == [Grass EXCEPT !.terrain = "water"]
House == [Grass EXCEPT !.zone = "residential", !.developmentProgress = 100,
                       !.population = 10]
Shop == [Grass EXCEPT !.zone = "commercial", !.developmentProgress = 100, !.jobs = 5]
Site == [Grass EXCEPT !.zone = "residential", !.developmentProgress = 50]
Road == [Grass EXCEPT !.hasRoad = TRUE]
Wire == [Grass EXCEPT !.hasPowerLine = TRUE]
Pipe == [Grass EXCEPT !.hasWaterPipe = TRUE]

\* A grid that is grass except for the 2 x 2 block at the origin.
Town(a, b, c, d) ==
    [k \in Keys |->
        IF k = <<0, 0>> THEN a
        ELSE IF k = <<1, 0>> THEN b
        ELSE IF k = <<0, 1>> THEN c
        ELSE IF k = <<1, 1>> THEN d
        ELSE Grass]

\* The cities a run starts from: the tile grid, the power plants, the water pumps.
Cities ==
    { [tiles |-> Town(Grass, Road, Site, Wire), plants |-> <<>>, pumps |-> <<>>],
      [tiles |-> Town(House, Grass, Grass, Grass), plants |-> <<>>, pumps |-> <<>>],
      [tiles |-> Town(House, Shop, Road, Water),
       plants |-> <<[x |-> 0, y |-> 1]>>, pumps |-> <<>>],
      [tiles |-> Town(House, Site, Pipe, Shop),
       plants |-> <<[x |-> 2, y |-> 1]>>, pumps |-> <<[x |-> 1, y |-> 1]>>] }

HasZone(tile) == tile.zone # "none"
Developed(tile) == HasZone(tile) /\ tile.developmentProgress >= 100

\* The elements of a set of tile keys as a sequence of {x, y} objects, in row
\* order (the order of entries inside one disaster's report is not modelled).
KeyRank(k) == k[2] * MAP_SIZE + k[1]
RECURSIVE KeysToSeq(_)
KeysToSeq(S) ==
    IF S = {} THEN <<>>
    ELSE LET k == CHOOSE a \in S : \A b \in S : KeyRank(a) <= KeyRank(b)
         IN  <<[x |-> k[1], y |-> k[2]]>> \o KeysToSeq(S \ {k})

RECURSIVE SumOver(_, _, _)
SumOver(S, tl, field) ==
    IF S = {} THEN 0
    ELSE LET k == CHOOSE a \in S : TRUE
         IN  (IF field = "population" THEN tl[k].population ELSE tl[k].jobs)
             + SumOver(S \ {k}, tl, field)

\* Math.random() < chance (in percent) over a set of independent rolls: the sets
\* of rolls that can succeed together.
MutRollIgnoresChance(S, chance) == SUBSET S
RollOutcomes(S, chance) ==
    {R \in SUBSET S : (R # {} => chance > 0) /\ (R # S => chance < 100)}

----------------------------------------------------------------------------
(* DisasterSystem configuration: src/src/systems/DisasterSystem.ts *)

FIRE_spreadInterval == 2
FIRE_spreadChance == 40
FIRE_maxDuration == 15
FIRE_damageChance == 30
TORNADO_speed == 1
TORNADO_pathWidth == 1
EARTHQUAKE_damageChance == 30
EARTHQUAKE_roadDamageChance == 15
\* The margin around the map a tornado may run in before it counts as gone.
TORNADO_margin == 2

EmptyDamage ==
    [damagedTiles |-> <<>>, destroyedPowerPlants |-> <<>>,
     destroyedWaterPumps |-> <<>>, populationLost |-> 0, jobsLost |-> 0]

\* The entries of a sequence of {x, y} objects that sit on tile k.
AtKey(list, k) == {i \in DOMAIN list : list[i].x = k[1] /\ list[i].y = k[2]}

----------------------------------------------------------------------------
(* DisasterSystem: starting a disaster *)

\* `disaster_${++this.disasterIdCounter}_${Date.now()}`: the id and the counter
\* after the call.
MutGenerateIdNoIncrement(counter, t) ==
    [id |-> [n |-> counter, t |-> t], counter |-> counter]
generateId(counter, t) ==
    [id |-> [n |-> counter + 1, t |-> t], counter |-> counter + 1]

\* Map.set on the insertion-ordered entries of activeDisasters.
MapSet(entries, d) ==
    IF \E i \in DOMAIN entries : entries[i].id = d.id
    THEN [i \in DOMAIN entries |-> IF entries[i].id = d.id THEN d ELSE entries[i]]
    ELSE Append(entries, d)

\* A fire seeded on any zoned tile, developed or not.
MutStartFireOnAnyZone(tl, tick, id) ==
    { [id |-> id, type |-> "fire", affectedTiles |-> {startTile},
       startTick |-> tick, currentTick |-> 0, burnedTiles |-> {}]
      : startTile \in {k \in Keys : HasZone(tl[k])} }

\* The fires startFire can create (none: it returns null).
startFire(tl, tick, id) ==
    LET developedTiles == {k \in Keys : Developed(tl[k])}
    IN  { [id |-> id, type |-> "fire", affectedTiles |-> {startTile},
           startTick |-> tick, currentTick |-> 0, burnedTiles |-> {}]
          : startTile \in developedTiles }

\* Positions and directions are fixed-point numbers in units of 1 / SCALE. The
\* sideways drift (Math.random() - 0.5) * 0.5 is drawn from values in units of
\* 1 / DriftUnit whose vectors have a rational length, so that normalising is exact.
DriftUnit == 3 * 40
SCALE == 122 * 123
TornadoDrifts == {-27, 0, 22}

ISqrt(n) == CHOOSE r \in 0..(2 * DriftUnit) : r * r <= n /\ (r + 1) * (r + 1) > n

Floor(v) == v \div SCALE

\* direction.dx /= magnitude; direction.dy /= magnitude
Normalize(v) ==
    LET magnitude == ISqrt(v.dx * v.dx + v.dy * v.dy)
    IN  [dx |-> (v.dx * SCALE) \div magnitude, dy |-> (v.dy * SCALE) \div magnitude]

\* The edge, position and raw direction startTornado draws.
TornadoEdge(edge, offset, drift) ==
    CASE edge = 0 -> [position |-> [x |-> offset * SCALE, y |-> 0],
                      direction |-> [dx |-> drift, dy |-> DriftUnit]]
      [] edge = 1 -> [position |-> [x |-> offset * SCALE, y |-> (MAP_SIZE - 1) * SCALE],
                      direction |-> [dx |-> drift, dy |-> -DriftUnit]]
      [] edge = 2 -> [position |-> [x |-> 0, y |-> offset * SCALE],
                      direction |-> [dx |-> DriftUnit, dy |-> drift]]
      [] OTHER    -> [position |-> [x |-> (MAP_SIZE - 1) * SCALE, y |-> offset * SCALE],
                      direction |-> [dx |-> -DriftUnit, dy |-> drift]]

\* What startTornado draws with Math.random(): the edge, the place on it, the drift.
TornadoDraws == [edge : 0..3, offset : Coords, drift : TornadoDrifts]

\* The tornadoes startTornado creates for the draws in `draws`.
startTornado(tick, id, draws) ==
    { LET e == TornadoEdge(r.edge, r.offset, r.drift)
      IN  [id |-> id, type |-> "tornado",
           affectedTiles |-> {<<Floor(e.position.x), Floor(e.position.y)>>},
           startTick |-> tick, currentTick |-> 0,
           position |-> e.position, direction |-> Normalize(e.direction)]
      : r \in draws }

startEarthquake(tl, tick, id) ==
    { [id |-> id, type |-> "earthquake",
       affectedTiles |-> {k \in Keys : HasZone(tl[k]) \/ tl[k].hasRoad},
       startTick |-> tick, currentTick |-> 0] }

DisasterType == {"fire", "tornado", "earthquake"}

\* The disasters startDisaster(type, tiles) can register.
StartChoices(type, tl, tick, id, draws) ==
    CASE type = "fire" -> startFire(tl, tick, id)
      [] type = "tornado" -> startTornado(tick, id, draws)
      [] OTHER -> startEarthquake(tl, tick, id)

----------------------------------------------------------------------------
(* DisasterSystem: updating the active disasters *)

\* One disaster's turn in update(): the disaster afterwards, what it added to
\* the DisasterDamage, whether it was pushed on disastersToRemove, and whether
\* it got as far as its damage phase.
Outcome(d, dmg, remove, applied) ==
    [d |-> d, dmg |-> dmg, remove |-> remove, applied |-> applied]

Neighbours(k) ==
    { <<k[1] - 1, k[2]>>, <<k[1] + 1, k[2]>>, <<k[1], k[2] - 1>>, <<k[1], k[2] + 1>> }

\* A fire that spreads to whatever lies next to it, water and bare grass too.
MutSpreadOverAnything(d, tl) ==
    { n \in UNION { Neighbours(k) : k \in d.affectedTiles } :
        /\ InMap(n[1], n[2])
        /\ n \notin d.affectedTiles /\ n \notin d.burnedTiles }

\* The tiles the fire may spread to in this update: in the map, neither burning
\* nor burned, not water, and carrying a zone or a road.
SpreadCandidates(d, tl) ==
    { n \in UNION { Neighbours(k) : k \in d.affectedTiles } :
        /\ InMap(n[1], n[2])
        /\ n \notin d.affectedTiles /\ n \notin d.burnedTiles
        /\ tl[n].terrain # "water" /\ (HasZone(tl[n]) \/ tl[n].hasRoad) }

\* The spread step of updateFire for the damage rolls that succeeded (rolled)
\* and the neighbours that caught fire (newFires).
MutFireSpreadForgetsBurned(d, tl, plants, pumps, rolled, newFires) ==
    LET burnt == {k \in rolled : Developed(tl[k])}
    IN  [d |-> [d EXCEPT !.affectedTiles = d.affectedTiles \cup newFires],
         dmg |-> [damagedTiles |-> KeysToSeq(burnt), destroyedPowerPlants |-> <<>>,
                  destroyedWaterPumps |-> <<>>, populationLost |-> 0, jobsLost |-> 0],
         remove |-> FALSE, applied |-> TRUE]
FireSpread(d, tl, plants, pumps, rolled, newFires) ==
    LET hit == {k \in rolled : k \notin d.burnedTiles}
        burnt == {k \in hit : Developed(tl[k])}
        burned == d.burnedTiles \cup burnt
        dmg == [damagedTiles |-> KeysToSeq(burnt),
                destroyedPowerPlants |-> KeysToSeq({k \in hit : AtKey(plants, k) # {}}),
                destroyedWaterPumps |-> KeysToSeq({k \in hit : AtKey(pumps, k) # {}}),
                populationLost |->
                    SumOver({k \in burnt : tl[k].zone = "residential"}, tl, "population"),
                jobsLost |->
                    SumOver({k \in burnt : tl[k].zone # "residential"}, tl, "jobs")]
    IN  Outcome([d EXCEPT !.burnedTiles = burned,
                          !.affectedTiles = (d.affectedTiles \cup newFires) \ burned],
                dmg, FALSE, TRUE)

\* The burn-out check of updateFire.
MutFireNeverBurnsOut(d) == FALSE
FireBurnsOut(d) == d.currentTick >= FIRE_maxDuration \/ d.affectedTiles = {}

\* updateFire, for a disaster whose currentTick update() has already advanced.
updateFire(d, tl, plants, pumps, chance) ==
    IF FireBurnsOut(d)
    THEN { Outcome(d, EmptyDamage, TRUE, FALSE) }
    ELSE IF d.currentTick % FIRE_spreadInterval = 0
         THEN { FireSpread(d, tl, plants, pumps, rolled, newFires) :
                    rolled \in RollOutcomes(d.affectedTiles, FIRE_damageChance),
                    newFires \in RollOutcomes(SpreadCandidates(d, tl), chance) }
         ELSE { Outcome([d EXCEPT !.affectedTiles = @ \ d.burnedTiles],
                        EmptyDamage, FALSE, TRUE) }

\* The tiles of the tornado's path around the tile (cx, cy).
MutPathIsDiamond(cx, cy) ==
    { k \in Keys : (IF k[1] >= cx THEN k[1] - cx ELSE cx - k[1])
                   + (IF k[2] >= cy THEN k[2] - cy ELSE cy - k[2]) <= TORNADO_pathWidth }
TornadoPath(cx, cy) ==
    { k \in { <<cx + dx, cy + dy>> : dx \in (-TORNADO_pathWidth)..TORNADO_pathWidth,
                                     dy \in (-TORNADO_pathWidth)..TORNADO_pathWidth } :
        InMap(k[1], k[2]) }

\* Whether a position has left the map and its margin.
MutTornadoNeverLeaves(p) == FALSE
TornadoHasLeft(p) ==
    \/ p.x < (-TORNADO_margin) * SCALE
    \/ p.x >= (MAP_SIZE + TORNADO_margin) * SCALE
    \/ p.y < (-TORNADO_margin) * SCALE
    \/ p.y >= (MAP_SIZE + TORNADO_margin) * SCALE

\* The tornado's position after one move.
MutMoveTurns(d) ==
    [x |-> d.position.x + d.direction.dy * TORNADO_speed,
     y |-> d.position.y + d.direction.dx * TORNADO_speed]
TornadoMove(d) ==
    [x |-> d.position.x + d.direction.dx * TORNADO_speed,
     y |-> d.position.y + d.direction.dy * TORNADO_speed]

updateTornado(d, tl, plants, pumps) ==
    IF "position" \notin DOMAIN d \/ "direction" \notin DOMAIN d
    THEN { Outcome(d, EmptyDamage, TRUE, FALSE) }
    ELSE
    LET moved == [d EXCEPT !.position = TornadoMove(d)]
    IN  IF TornadoHasLeft(moved.position)
        THEN { Outcome(moved, EmptyDamage, TRUE, FALSE) }
        ELSE
        LET path == TornadoPath(Floor(moved.position.x), Floor(moved.position.y))
            wrecked == {k \in path : \/ HasZone(tl[k]) \/ tl[k].hasRoad
                                     \/ tl[k].hasPowerLine \/ tl[k].hasWaterPipe}
            dmg == [damagedTiles |-> KeysToSeq(wrecked),
                    destroyedPowerPlants |-> KeysToSeq({k \in path : AtKey(plants, k) # {}}),
                    destroyedWaterPumps |-> KeysToSeq({k \in path : AtKey(pumps, k) # {}}),
                    populationLost |->
                        SumOver({k \in wrecked : tl[k].zone = "residential"
                                                 /\ Developed(tl[k])}, tl, "population"),
                    jobsLost |->
                        SumOver({k \in wrecked : tl[k].zone # "residential"
                                                 /\ Developed(tl[k])}, tl, "jobs")]
        IN  { Outcome([moved EXCEPT !.affectedTiles = path], dmg, FALSE, TRUE) }

\* The entries of a list at the indices in I, in list order.
RECURSIVE Pick(_, _, _)
Pick(list, I, i) ==
    IF i > Len(list) THEN <<>>
    ELSE (IF i \in I THEN <<[x |-> list[i].x, y |-> list[i].y]>> ELSE <<>>)
         \o Pick(list, I, i + 1)

\* The earthquake's one-tick test.
QuakeIsOver(d) == d.currentTick > 1

updateEarthquake(d, tl, plants, pumps) ==
    IF QuakeIsOver(d)
    THEN { Outcome(d, EmptyDamage, TRUE, FALSE) }
    ELSE
    LET buildings == {k \in d.affectedTiles : Developed(tl[k])}
        roads == {k \in d.affectedTiles : ~Developed(tl[k]) /\ tl[k].hasRoad}
    IN  { LET shaken == b \cup r
          IN  Outcome([d EXCEPT !.affectedTiles = {}],
                  [damagedTiles |-> KeysToSeq(shaken),
                   destroyedPowerPlants |-> Pick(plants, pp, 1),
                   destroyedWaterPumps |-> Pick(pumps, wp, 1),
                   populationLost |->
                       SumOver({k \in shaken : tl[k].zone = "residential"}, tl, "population"),
                   jobsLost |->
                       SumOver({k \in shaken : HasZone(tl[k])
                                               /\ tl[k].zone # "residential"}, tl, "jobs")],
                  TRUE, TRUE)
          : b \in RollOutcomes(buildings, EARTHQUAKE_damageChance),
            r \in RollOutcomes(roads, EARTHQUAKE_roadDamageChance),
            pp \in RollOutcomes(DOMAIN plants, EARTHQUAKE_damageChance \div 2),
            wp \in RollOutcomes(DOMAIN pumps, EARTHQUAKE_damageChance \div 2) }

\* disaster.currentTick++ and the switch on disaster.type.
UpdateOne(d, tl, plants, pumps, chance) ==
    LET t == [d EXCEPT !.currentTick = @ + 1]
    IN  CASE t.type = "fire" -> updateFire(t, tl, plants, pumps, chance)
          [] t.type = "tornado" -> updateTornado(t, tl, plants, pumps)
          [] OTHER -> updateEarthquake(t, tl, plants, pumps)

AddDamage(a, b) ==
    [damagedTiles |-> a.damagedTiles \o b.damagedTiles,
     destroyedPowerPlants |-> a.destroyedPowerPlants \o b.destroyedPowerPlants,
     destroyedWaterPumps |-> a.destroyedWaterPumps \o b.destroyedWaterPumps,
     populationLost |-> a.populationLost + b.populationLost,
     jobsLost |-> a.jobsLost + b.jobsLost]

\* The loop of update() over the entries from index i on: the possible
\* sequences of outcomes, one per entry.
RECURSIVE UpdateFrom(_, _, _, _, _, _)
UpdateFrom(entries, i, tl, plants, pumps, chance) ==
    IF i > Len(entries) THEN { <<>> }
    ELSE { <<o>> \o rest : o \in UpdateOne(entries[i], tl, plants, pumps, chance),
                           rest \in UpdateFrom(entries, i + 1, tl, plants, pumps, chance) }

RECURSIVE TotalDamage(_, _)
TotalDamage(outs, i) ==
    IF i > Len(outs) THEN EmptyDamage
    ELSE AddDamage(outs[i].dmg, TotalDamage(outs, i + 1))

\* activeDisasters after the loop: every entry updated, then the entries whose
\* id is on disastersToRemove deleted.
MutNothingRemoved(outs) == [i \in DOMAIN outs |-> outs[i].d]
Remaining(outs) ==
    LET gone == {outs[i].d.id : i \in {j \in DOMAIN outs : outs[j].remove}}
    IN  SelectSeq([i \in DOMAIN outs |-> outs[i].d], LAMBDA d : d.id \notin gone)

----------------------------------------------------------------------------
(* DisasterSystem: the public methods as steps on the instance's state *)

DisasterInit ==
    /\ activeDisasters = <<>>
    /\ disasterIdCounter = 0
    /\ currentGameTick = 0
    /\ now = 0
    /\ damage = EmptyDamage
    /\ issuedIds = <<>>
    /\ lastCall = "new"
    /\ history = <<>>

ActiveIds == {activeDisasters[i].id : i \in DOMAIN activeDisasters}

\* The record kept about a disaster from its start until the call after the
\* update that ended it: the disaster as it was registered, the tiles it reported
\* over all updates, its report in the last update, how many updates reached it
\* and how many of them reached its damage phase, and whether the last ended it.
Kept(h) == {id \in DOMAIN h : ~h[id].ended}

HistoryStart(h, d) ==
    [id \in Kept(h) \cup {d.id} |->
        IF id = d.id
        THEN [first |-> d, damaged |-> <<>>, last |-> EmptyDamage,
              updates |-> 0, applied |-> 0, ended |-> FALSE]
        ELSE h[id]]

HistoryAfter(h, outs) ==
    [id \in Kept(h) |->
        LET I == {i \in DOMAIN outs : outs[i].d.id = id}
        IN  IF I = {} THEN h[id]
            ELSE LET o == outs[CHOOSE i \in I : TRUE]
                 IN  [h[id] EXCEPT !.damaged = @ \o o.dmg.damagedTiles,
                                   !.last = o.dmg,
                                   !.updates = @ + 1,
                                   !.applied = @ + (IF o.applied THEN 1 ELSE 0),
                                   !.ended = o.remove]]

\* startDisaster(type, tiles), called when Date.now() has reached t, with the
\* tornado draws in `draws`.
startDisaster(type, t, draws) ==
    /\ currentGameTick < MaxStarts
    /\ t >= now
    /\ now' = t
    /\ currentGameTick' = currentGameTick + 1
    /\ LET g == generateId(disasterIdCounter, t)
           choices == StartChoices(type, tiles, currentGameTick + 1, g.id, draws)
       IN  IF choices = {}
           THEN /\ UNCHANGED <<activeDisasters, disasterIdCounter, issuedIds>>
                /\ history' = [id \in Kept(history) |-> history[id]]
           ELSE \E d \in choices :
                    /\ activeDisasters' = MapSet(activeDisasters, d)
                    /\ disasterIdCounter' = g.counter
                    /\ issuedIds' = Append(issuedIds, g.id)
                    /\ history' = HistoryStart(history, d)
    /\ lastCall' = "startDisaster"
    /\ UNCHANGED damage

\* update(tiles, powerPlants, waterPumps); outs is one outcome of its loop.
update(outs) ==
    /\ activeDisasters' = Remaining(outs)
    /\ damage' = TotalDamage(outs, 1)
    /\ history' = HistoryAfter(history, outs)
    /\ lastCall' = "update"
    /\ UNCHANGED <<disasterIdCounter, currentGameTick, now, issuedIds>>

UpdateOutcomes ==
    UpdateFrom(activeDisasters, 1, tiles, powerPlants, waterPumps, spreadChance)

clearAllDisasters ==
    /\ activeDisasters' = <<>>
    /\ lastCall' = "clearAllDisasters"
    /\ history' = <<>>
    /\ UNCHANGED <<disasterIdCounter, currentGameTick, now, damage, issuedIds>>

----------------------------------------------------------------------------
(* The DisasterSystem driven through its public methods on a fixed city *)

\* The key a call passes when it names no save (existingKey left undefined).
NoKey == [slug |-> <<>>, timestamp |-> -1]

\* A browser that has never saved a game, and a SaveManager never called.
SaveIdle ==
    /\ localStorage = [index |-> <<>>, items |-> <<>>]
    /\ dateNow = 0
    /\ saveLog = [op |-> "none", key |-> NoKey, existing |-> NoKey, success |-> FALSE,
                  error |-> "", before |-> [index |-> <<>>, items |-> <<>>],
                  loaded |-> [k |-> "undefined"], saved |-> <<>>, ops |-> 0]

\* An empty residential lot in a city that starts with money in hand, before
\* the first month has run.
EmptyLot(zone) ==
    [zone |-> zone, developmentProgress |-> 0, population |-> 0, jobs |-> 0,
     isAbandoned |-> FALSE, abandonmentReason |-> "none",
     monthsWithoutPower |-> 0, monthsWithoutWater |-> 0,
     monthsWithHighCrime |-> 0, monthsWithHighPollution |-> 0]

\* The HUD part of the UI store as created, and no key pressed yet.
HudIdle ==
    /\ activeOverlay = "none"
    /\ selectedTool = "none"
    /\ keyLog = [key |-> "none", gameSpeed |-> "normal", isPaused |-> FALSE,
                 activeOverlay |-> "none", selectedTool |-> "none"]

\* No timeout.
NoTimer == [for |-> 0, due |-> -1, manual |-> FALSE]

\* The store without a notification and the Notification component as mounted.
NoteIdle ==
    /\ notification = 0
    /\ isVisible = FALSE
    /\ isExiting = FALSE
    /\ autoDismiss = NoTimer
    /\ exitTimers = {}
    /\ noteClock = 0
    /\ noteLog = [shown |-> <<>>, clicks |-> 0, cleared |-> 0, by |-> NoTimer, at |-> 0]

\* The steps of a fade.
steps == 20

\* Volumes are counted in units of 0.00005, so that every volume of a fade
\* from or to a volume of the model is a whole number of units.
DefaultMusicVolume == steps * steps
DefaultSfxVolume == 5 * DefaultMusicVolume
FullVolume == 50 * DefaultMusicVolume

\* The volumes the preferences and setMusicVolume / setSfxVolume take.
MusicVolumes == {0, 2 * DefaultMusicVolume, FullVolume + DefaultMusicVolume}
SfxVolumes == {0, DefaultSfxVolume}

\* The preferences an earlier session can have stored.
StoredPrefs == {[muted |-> "true", music |-> DefaultMusicVolume, sfx |-> DefaultSfxVolume],
                [muted |-> "false", music |-> 2 * DefaultMusicVolume, sfx |-> 0]}

MusicElements == {"bgMusic", "menuMusic"}

\* No fade running for an element.
NoFade == [fromVolume |-> 0, volumeStep |-> 0, toVolume |-> 0, currentStep |-> -1,
           pauses |-> FALSE]

\* No preferences stored.
NoPrefs == [muted |-> "null", music |-> -1, sfx |-> -1]

\* The AudioManager as constructed with no stored preferences, before preload().
AudioIdle ==
    /\ isMuted = FALSE
    /\ musicVolume = DefaultMusicVolume
    /\ sfxVolume = DefaultSfxVolume
    /\ isPreloaded = FALSE
    /\ music = [a \in MusicElements |-> [volume |-> 0, paused |-> TRUE]]
    /\ soundVolume = 0
    /\ fadeIntervals = [a \in MusicElements |-> NoFade]
    /\ playPromises = [a \in MusicElements |-> <<>>]
    /\ crossfadeTimers = 0
    /\ audioPrefs = NoPrefs
    /\ audioLog = [ops |-> 0, played |-> FALSE]

\* The parts of the program a run leaves untouched.
ShellIdle == HudIdle /\ NoteIdle /\ AudioIdle

MonthIdle ==
    /\ lot = EmptyLot("residential")
    /\ budget = 0
    /\ isInDeficit = FALSE
    /\ lastAbandonmentEvents = <<>>
    /\ notices = <<>>
    /\ monthLog = [power |-> <<>>, budgetBefore |-> 0, event |-> "none", months |-> 0]

\* A TrafficRenderer as constructed, with no road and nobody in the city.
TrafficIdle ==
    /\ vehicles = <<>>
    /\ nextVehicleId = 0
    /\ lastSpawnTime = 0
    /\ perfNow = 0
    /\ roadTiles = {}
    /\ population = 0
    /\ trafficLog = [spawned |-> <<>>, arrived |-> {}, trimmed |-> 0, noRoadTime |-> 0,
                     spawnAt |-> -1, prevSpawnAt |-> -1, updates |-> 0,
                     changes |-> 0, dt |-> 0]

ComponentIdle ==
    /\ mounted = FALSE
    /\ effectDeps = <<"normal", FALSE>>
    /\ hasCleanup = FALSE
    /\ simulationTimerRef = 0
    /\ timers = {}
    /\ tickPc = 0
    /\ ticksRun = 0
    /\ tickLog = <<>>

InitDisaster ==
    /\ UIInit
    /\ isInitialized = FALSE
    /\ ComponentIdle
    /\ \E city \in Cities :
           /\ tiles = city.tiles
           /\ powerPlants = city.plants
           /\ waterPumps = city.pumps
    /\ spreadChance \in {0, FIRE_spreadChance}
    /\ DisasterInit
    /\ SaveIdle
    /\ MonthIdle
    /\ ShellIdle
    /\ TrafficIdle

\* The arguments of startDisaster and update as the call leaves them: the calls
\* read tiles, powerPlants and waterPumps and write only to the damage result
\* and to the disasters of the instance.
MutUpdateWritesTiles(tl, plants, pumps, dmg) ==
    [tiles |-> [k \in Keys |->
                   IF \E i \in DOMAIN dmg.damagedTiles :
                          dmg.damagedTiles[i] = [x |-> k[1], y |-> k[2]]
                   THEN [tl[k] EXCEPT !.zone = "none", !.developmentProgress = 0]
                   ELSE tl[k]],
     powerPlants |-> plants, waterPumps |-> pumps]
ArgumentsAfter(tl, plants, pumps, dmg) ==
    [tiles |-> tl, powerPlants |-> plants, waterPumps |-> pumps]

\* A call of startDisaster with a type in `types` and tornado draws in `draws`.
CallStartDisaster(types, draws) ==
    /\ UNCHANGED beyondLoop
    /\ \E type \in types, t \in 0..MaxNow : startDisaster(type, t, draws)
    /\ LET after == ArgumentsAfter(tiles, powerPlants, waterPumps, EmptyDamage)
       IN  /\ tiles' = after.tiles
           /\ powerPlants' = after.powerPlants
           /\ waterPumps' = after.waterPumps
    /\ UNCHANGED <<uiVars, isInitialized, compVars, spreadChance>>

CallUpdate ==
    /\ UNCHANGED beyondLoop
    /\ \E outs \in UpdateOutcomes :
           /\ update(outs)
           /\ LET after == ArgumentsAfter(tiles, powerPlants, waterPumps, TotalDamage(outs, 1))
              IN  /\ tiles' = after.tiles
                  /\ powerPlants' = after.powerPlants
                  /\ waterPumps' = after.waterPumps
    /\ UNCHANGED <<uiVars, isInitialized, compVars, spreadChance>>

CallClearAllDisasters ==
    /\ UNCHANGED beyondLoop
    /\ activeDisasters # <<>>
    /\ clearAllDisasters
    /\ UNCHANGED <<uiVars, gameVars, compVars, spreadChance>>

\* Fires only, one at a time.
NextFire ==
    \/ (activeDisasters = <<>> /\ CallStartDisaster({"fire"}, {}))
    \/ CallUpdate
    \/ CallClearAllDisasters

SpecFire == InitDisaster /\ [][NextFire]_vars

\* Tornadoes only, with every draw, one at a time.
NextTornado ==
    \/ (activeDisasters = <<>> /\ CallStartDisaster({"tornado"}, TornadoDraws))
    \/ CallUpdate
    \/ CallClearAllDisasters

InitTornado == InitDisaster /\ spreadChance = FIRE_spreadChance

SpecTornado == InitTornado /\ [][NextTornado]_vars

\* All three types, several at once, the tornadoes with a few draws.
FewTornadoDraws ==
    { [edge |-> 0, offset |-> 0, drift |-> 0],
      [edge |-> 2, offset |-> 1, drift |-> 22],
      [edge |-> 3, offset |-> MAP_SIZE - 1, drift |-> -27] }

NextDisaster ==
    \/ CallStartDisaster(DisasterType, FewTornadoDraws)
    \/ CallUpdate
    \/ CallClearAllDisasters

InitTown ==
    /\ InitDisaster
    /\ tiles = Town(House, Shop, Road, Water)
    /\ spreadChance = FIRE_spreadChance

SpecDisaster == InitTown /\ [][NextDisaster]_vars

----------------------------------------------------------------------------
(* The game loop: the Game component's timer effect and its tick callback *)

\* Game store, initializeMap(): the map exists from then on.
initializeMap == isInitialized' = TRUE

\* Game store, updateDisasters(): what the store does with the damage that
\* DisasterSystem.update returned.
ApplyDamage(tl, dmg) ==
    LET hit == {<<dmg.damagedTiles[i].x, dmg.damagedTiles[i].y>> : i \in DOMAIN dmg.damagedTiles}
    IN  [k \in Keys |-> IF k \in hit THEN [Grass EXCEPT !.terrain = tl[k].terrain] ELSE tl[k]]

Surviving(list, destroyed) ==
    SelectSeq(list, LAMBDA s : \A i \in DOMAIN destroyed :
                                   ~(destroyed[i].x = s.x /\ destroyed[i].y = s.y))

\* The steps of the tick callback, in the order the callback runs them.
MutTickOrderUpdatesFirst ==
    <<"runMonthlySimulation", "updateDisasters", "checkForDisaster",
      "checkBudgetDeficitEvent", "checkMilestones">>
TickOrder ==
    <<"runMonthlySimulation", "checkForDisaster", "updateDisasters",
      "checkBudgetDeficitEvent", "checkMilestones">>

AtStep(name) == tickPc # 0 /\ TickOrder[tickPc] = name

StepDone(name) ==
    /\ tickLog' = Append(tickLog, name)
    /\ tickPc' = IF tickPc = Len(TickOrder) THEN 0 ELSE tickPc + 1
    /\ UNCHANGED <<mounted, effectDeps, hasCleanup, simulationTimerRef, timers, ticksRun>>

Ref == [ref |-> simulationTimerRef, timers |-> timers]

\* <Game/> mounts: its effects run with the values of the first render; the
\* canvas effect initialises the map, the timer effect follows it.
Mount ==
    /\ UNCHANGED beyondLoop
    /\ tickPc = 0
    /\ ~mounted /\ hasGameStarted
    /\ LET e == TimerEffect([ref |-> 0, timers |-> timers], gameSpeed, isInitialized)
       IN  /\ simulationTimerRef' = e.ref
           /\ timers' = e.timers
           /\ hasCleanup' = e.cleanup
    /\ initializeMap
    /\ mounted' = TRUE
    /\ effectDeps' = <<gameSpeed, isInitialized>>
    /\ UNCHANGED <<uiVars, tiles, powerPlants, waterPumps, tickPc, ticksRun, tickLog,
                   disasterVars>>

\* A render with a changed gameSpeed or isInitialized: the previous cleanup,
\* then the effect again.
Rerender ==
    /\ UNCHANGED beyondLoop
    /\ tickPc = 0
    /\ mounted /\ hasGameStarted
    /\ effectDeps # <<gameSpeed, isInitialized>>
    /\ LET e == TimerEffect(TimerCleanup(Ref, hasCleanup), gameSpeed, isInitialized)
       IN  /\ simulationTimerRef' = e.ref
           /\ timers' = e.timers
           /\ hasCleanup' = e.cleanup
    /\ effectDeps' = <<gameSpeed, isInitialized>>
    /\ UNCHANGED <<uiVars, gameVars, mounted, tickPc, ticksRun, tickLog, disasterVars>>

\* <Game/> unmounts: the cleanup runs and the ref goes with the component.
Unmount ==
    /\ UNCHANGED beyondLoop
    /\ tickPc = 0
    /\ mounted /\ ~hasGameStarted
    /\ timers' = TimerCleanup(Ref, hasCleanup).timers
    /\ simulationTimerRef' = 0
    /\ hasCleanup' = FALSE
    /\ mounted' = FALSE
    /\ UNCHANGED <<uiVars, gameVars, effectDeps, tickPc, ticksRun, tickLog, disasterVars>>

\* A user action on the UI store, between callbacks.
UserAction ==
    /\ UNCHANGED beyondLoop
    /\ tickPc = 0
    /\ \/ startGame
       \/ \E speed \in GameSpeed : setGameSpeed(speed)
       \/ togglePause
       \/ startScreensaver
       \/ exitScreensaver
    /\ UNCHANGED <<gameVars, compVars, disasterVars>>

\* An interval timer fires and its callback starts.
TimerFires ==
    /\ UNCHANGED beyondLoop
    /\ tickPc = 0
    /\ ticksRun < MaxTicks
    /\ timers # {}
    /\ tickPc' = 1
    /\ ticksRun' = ticksRun + 1
    /\ tickLog' = <<>>
    /\ UNCHANGED <<uiVars, gameVars, mounted, effectDeps, hasCleanup, simulationTimerRef,
                   timers, disasterVars>>

TickRunMonthlySimulation ==
    /\ UNCHANGED beyondLoop
    /\ AtStep("runMonthlySimulation")
    /\ StepDone("runMonthlySimulation")
    /\ UNCHANGED <<uiVars, gameVars, disasterVars>>

\* checkForDisaster(): the monthly roll, and startDisaster on a hit.
TickCheckForDisaster ==
    /\ UNCHANGED beyondLoop
    /\ AtStep("checkForDisaster")
    /\ \/ UNCHANGED sysVars
       \/ \E type \in DisasterType, t \in 0..MaxNow : startDisaster(type, t, FewTornadoDraws)
    /\ StepDone("checkForDisaster")
    /\ UNCHANGED <<uiVars, gameVars, spreadChance>>

\* updateDisasters(): update, and the damage applied to the store.
TickUpdateDisasters ==
    /\ UNCHANGED beyondLoop
    /\ AtStep("updateDisasters")
    /\ \E outs \in UpdateOutcomes :
           /\ update(outs)
           /\ tiles' = ApplyDamage(tiles, TotalDamage(outs, 1))
           /\ powerPlants' = Surviving(powerPlants, TotalDamage(outs, 1).destroyedPowerPlants)
           /\ waterPumps' = Surviving(waterPumps, TotalDamage(outs, 1).destroyedWaterPumps)
    /\ StepDone("updateDisasters")
    /\ UNCHANGED <<uiVars, isInitialized, spreadChance>>

TickCheckBudgetDeficitEvent ==
    /\ UNCHANGED beyondLoop
    /\ AtStep("checkBudgetDeficitEvent")
    /\ StepDone("checkBudgetDeficitEvent")
    /\ UNCHANGED <<uiVars, gameVars, disasterVars>>

TickCheckMilestones ==
    /\ UNCHANGED beyondLoop
    /\ AtStep("checkMilestones")
    /\ StepDone("checkMilestones")
    /\ UNCHANGED <<uiVars, gameVars, disasterVars>>

InitTimer ==
    /\ UIInit
    /\ isInitialized = FALSE
    /\ ComponentIdle
    /\ tiles = Town(House, Shop, Road, Water)
    /\ powerPlants = <<[x |-> 0, y |-> 1]>>
    /\ waterPumps = <<>>
    /\ spreadChance = FIRE_spreadChance
    /\ DisasterInit
    /\ SaveIdle
    /\ MonthIdle
    /\ ShellIdle
    /\ TrafficIdle

NextTimer ==
    \/ UserAction
    \/ Mount
    \/ Rerender
    \/ Unmount
    \/ TimerFires
    \/ TickRunMonthlySimulation
    \/ TickCheckForDisaster
    \/ TickUpdateDisasters
    \/ TickCheckBudgetDeficitEvent
    \/ TickCheckMilestones

SpecTimer == InitTimer /\ [][NextTimer]_vars

----------------------------------------------------------------------------
(* Properties *)

NoDup(seq) == \A i, j \in DOMAIN seq : i # j => seq[i] # seq[j]
Range(seq) == {seq[i] : i \in DOMAIN seq}
Abs(n) == IF n >= 0 THEN n ELSE -n
XY(k) == [x |-> k[1], y |-> k[2]]

Active(type) == {activeDisasters[i] : i \in {j \in DOMAIN activeDisasters :
                                                 activeDisasters[j].type = type}}
Known(type) == {id \in DOMAIN history : history[id].first.type = type}

\* The disasters that the step under consideration updated.
UpdatedNow(type) ==
    {d \in Active(type) : /\ d.id \in DOMAIN history /\ d.id \in DOMAIN history'
                          /\ history'[d.id].updates = history[d.id].updates + 1}

\* C1: at any time at most one monthly interval timer exists, and it is the one
\* simulationTimerRef holds: no timer survives being replaced, paused away or
\* unmounted.
C1_AtMostOneTimer ==
    /\ Cardinality(timers) <= 1
    /\ timers = (IF simulationTimerRef = 0 THEN {} ELSE {simulationTimerRef})

\* C1 witness: a timer runs at fast speed after a pause from fast speed and a
\* resume, and it has ticked.
C1_Witness ==
    /\ Cardinality(timers) = 1
    /\ gameSpeed = "fast" /\ previousSpeed = "fast" /\ ~isPaused /\ ~isScreensaverMode
    /\ ticksRun > 0

C2_Order == <<"runMonthlySimulation", "checkForDisaster", "updateDisasters", "checkMilestones">>

\* C2: the steps a tick has run so far are, in this order, the monthly
\* simulation, the disaster check, the update of the active disasters and the
\* milestone check; and a disaster that has not been updated yet exists only
\* between the check and the update of one tick.
C2_TickOrder ==
    /\ LET ran == SelectSeq(tickLog, LAMBDA n : n \in Range(C2_Order))
       IN  /\ Len(ran) <= Len(C2_Order)
           /\ \A i \in DOMAIN ran : ran[i] = C2_Order[i]
           /\ (tickPc = 0 /\ ticksRun > 0) => ran = C2_Order
    /\ ("checkForDisaster" \notin Range(tickLog) \/ "updateDisasters" \in Range(tickLog))
           => \A i \in DOMAIN activeDisasters : activeDisasters[i].currentTick >= 1

\* C2 witness: the first tick is over, and the disaster its check started is
\* active and has been updated once.
C2_Witness ==
    /\ tickPc = 0 /\ ticksRun = 1
    /\ \E i \in DOMAIN activeDisasters : activeDisasters[i].currentTick = 1

\* C3 as stated: with spread chance 0, a fire that has run to its end has
\* reported exactly one damaged tile.
C3_ExactlyOneTile ==
    \A id \in Known("fire") :
        (spreadChance = 0 /\ history[id].ended) => Len(history[id].damaged) = 1

\* C3 amended: with spread chance 0, a fire reports at most one damaged tile over
\* all its updates, and that tile is its seed tile.
C3_AtMostSeedTile ==
    \A id \in Known("fire") :
        spreadChance = 0 =>
            /\ Len(history[id].damaged) <= 1
            /\ \A i \in DOMAIN history[id].damaged :
                   <<history[id].damaged[i].x, history[id].damaged[i].y>>
                       \in history[id].first.affectedTiles

\* C3 witness: with spread chance 0 a fire has ended having damaged its seed tile.
C3_Witness ==
    \E id \in Known("fire") :
        spreadChance = 0 /\ history[id].ended /\ Len(history[id].damaged) = 1

\* C4: an update removes a fire exactly if, with this update, its tick counter
\* has reached maxDuration or its active set was empty when the update began;
\* so no fire is reached by more than maxDuration updates, and an active fire
\* has been reached by fewer.
C4_FireEnds ==
    /\ [](\A id \in Known("fire") :
              /\ history[id].updates <= FIRE_maxDuration
              /\ id \in ActiveIds => history[id].updates < FIRE_maxDuration)
    /\ [][\A d \in UpdatedNow("fire") :
              (d.id \notin ActiveIds')
                  <=> (history[d.id].updates + 1 >= FIRE_maxDuration
                       \/ d.affectedTiles = {})]_vars

\* C4 witness: a fire whose only tile was consumed has been removed by the
\* update after that, before maxDuration.
C4_Witness ==
    \E id \in Known("fire") :
        /\ history[id].ended /\ id \notin ActiveIds
        /\ history[id].updates < FIRE_maxDuration
        /\ history[id].damaged # <<>>

\* C5: over a fire's lifetime no tile is reported twice, the tiles it reported
\* are its burned tiles, and no burned tile is in its active set.
C5_BurnsOnce ==
    /\ \A id \in Known("fire") : NoDup(history[id].damaged)
    /\ \A d \in Active("fire") :
           /\ d.affectedTiles \cap d.burnedTiles = {}
           /\ d.id \in DOMAIN history =>
                  {XY(k) : k \in d.burnedTiles} = Range(history[d.id].damaged)

\* C5 witness: a fire has consumed a tile and burns on next to it.
C5_Witness ==
    \E d \in Active("fire") :
        /\ d.burnedTiles # {}
        /\ \E k \in d.burnedTiles : Neighbours(k) \cap d.affectedTiles # {}

Carries(tile) ==
    HasZone(tile) \/ tile.hasRoad \/ tile.hasPowerLine \/ tile.hasWaterPipe
Centre(d) == <<Floor(d.position.x), Floor(d.position.y)>>
Manhattan(a, b) == Abs(a[1] - b[1]) + Abs(a[2] - b[2])
PerAxis(a, b) == IF Abs(a[1] - b[1]) >= Abs(a[2] - b[2]) THEN Abs(a[1] - b[1])
                 ELSE Abs(a[2] - b[2])
Moved(d) == d.id \in DOMAIN history /\ history[d.id].updates >= 1

\* C6 as stated: the tiles a tornado destroyed in its last update are the tiles
\* that carry something within Manhattan distance 1 of its centre tile.
C6_ManhattanPath ==
    \A d \in Active("tornado") :
        Moved(d) =>
            Range(history[d.id].last.damagedTiles)
                = {XY(k) : k \in {c \in Keys : Carries(tiles[c]) /\ Manhattan(c, Centre(d)) <= 1}}

\* C6 amended: the tiles a tornado destroyed in its last update are the tiles
\* that carry something within distance 1 of its centre tile on each axis (the
\* 3 x 3 square around it, diagonal neighbours included).
C6_SquarePath ==
    \A d \in Active("tornado") :
        Moved(d) =>
            Range(history[d.id].last.damagedTiles)
                = {XY(k) : k \in {c \in Keys : Carries(tiles[c]) /\ PerAxis(c, Centre(d)) <= 1}}

\* C6 witness: a tornado has destroyed a tile diagonal to its centre tile.
C6_Witness ==
    \E d \in Active("tornado") :
        /\ Moved(d)
        /\ \E k \in Keys : /\ XY(k) \in Range(history[d.id].last.damagedTiles)
                           /\ Manhattan(k, Centre(d)) = 2

\* C7: a tornado keeps the direction it started with, which has length 1 and
\* whose larger component leads from its start edge into the map; after k
\* updates it is at start + k * direction, and its affected tiles are in the
\* map and within one tile per axis of the tile holding that point.
C7_StraightPath ==
    \A d \in Active("tornado") :
        d.id \in DOMAIN history =>
            LET f == history[d.id].first
                k == history[d.id].updates
                at == [position |-> [x |-> f.position.x + k * f.direction.dx,
                                     y |-> f.position.y + k * f.direction.dy]]
                v == d.direction
            IN  /\ v = f.direction
                /\ v.dx * v.dx + v.dy * v.dy = SCALE * SCALE
                /\ \/ /\ Abs(v.dy) > Abs(v.dx)
                      /\ \/ f.position.y = 0 /\ v.dy > 0
                         \/ f.position.y = (MAP_SIZE - 1) * SCALE /\ v.dy < 0
                   \/ /\ Abs(v.dx) > Abs(v.dy)
                      /\ \/ f.position.x = 0 /\ v.dx > 0
                         \/ f.position.x = (MAP_SIZE - 1) * SCALE /\ v.dx < 0
                /\ d.position = at.position
                /\ d.affectedTiles \subseteq Keys
                /\ \A c \in d.affectedTiles : PerAxis(c, Centre(at)) <= 1

\* C7 witness: a drifting tornado has moved twice and covers a full 3 x 3 square.
C7_Witness ==
    \E d \in Active("tornado") :
        /\ d.id \in DOMAIN history /\ history[d.id].updates >= 2
        /\ d.direction.dx # 0 /\ d.direction.dy # 0
        /\ Cardinality(d.affectedTiles) = 9

Outside(p) ==
    \/ p.x < (-2) * SCALE \/ p.x >= (MAP_SIZE + 2) * SCALE
    \/ p.y < (-2) * SCALE \/ p.y >= (MAP_SIZE + 2) * SCALE

\* The number of updates after which no tornado is left: the map and its margin
\* at no less than 0.97 tiles per update.
TornadoMaxUpdates == ((MAP_SIZE + 2) * 100) \div 97 + 1

\* C8: an update removes a tornado exactly if the move of this update takes it
\* out of [-2, MAP_SIZE + 2) on an axis, and then it reports no damage; an
\* active tornado is inside that range, and no tornado is reached by more than
\* TornadoMaxUpdates updates.
C8_TornadoEnds ==
    /\ [](/\ \A d \in Active("tornado") : ~Outside(d.position)
          /\ \A id \in Known("tornado") :
                 /\ history[id].updates <= TornadoMaxUpdates
                 /\ history[id].ended => history[id].last = EmptyDamage)
    /\ [][\A d \in UpdatedNow("tornado") :
              (d.id \notin ActiveIds')
                  <=> Outside([x |-> d.position.x + d.direction.dx,
                               y |-> d.position.y + d.direction.dy])]_vars

\* C8 witness: a tornado has crossed the map and has been removed.
C8_Witness ==
    \E id \in Known("tornado") :
        /\ history[id].ended /\ id \notin ActiveIds
        /\ history[id].updates > MAP_SIZE

\* C9: no earthquake is active after an update; an active earthquake has not
\* been updated, and the one update that reaches an earthquake applies its
\* damage and ends it.
C9_QuakeOneUpdate ==
    /\ lastCall = "update" => Active("earthquake") = {}
    /\ \A d \in Active("earthquake") :
           d.currentTick = 0 /\ (d.id \in DOMAIN history => history[d.id].updates = 0)
    /\ \A id \in Known("earthquake") :
           /\ history[id].updates <= 1 /\ history[id].applied <= 1
           /\ history[id].updates = 1 => (history[id].applied = 1 /\ history[id].ended)

\* C9 witness: an update has just ended an earthquake that damaged a tile,
\* while another disaster goes on.
C9_Witness ==
    /\ lastCall = "update"
    /\ activeDisasters # <<>>
    /\ \E id \in Known("earthquake") :
           history[id].ended /\ history[id].last.damagedTiles # <<>>

\* C10: the ids an instance has issued are pairwise different, the active
\* disasters carry different ids, and a startDisaster call leaves every
\* disaster that was active in place, unchanged.
C10_UniqueIds ==
    /\ [](/\ NoDup(issuedIds)
          /\ Cardinality(ActiveIds) = Len(activeDisasters)
          /\ ActiveIds \subseteq Range(issuedIds))
    /\ [][currentGameTick' # currentGameTick =>
              /\ Len(activeDisasters') >= Len(activeDisasters)
              /\ \A i \in DOMAIN activeDisasters : activeDisasters'[i] = activeDisasters[i]]_vars

\* C10 witness: a startDisaster call has just added a second disaster, of another type,
\* to one that is active.
C10_Witness ==
    /\ Len(activeDisasters) = 2
    /\ activeDisasters[1].type # activeDisasters[2].type
    /\ lastCall = "startDisaster"

\* C11: no call of startDisaster or update changes the tile grid, the
\* power-plant list or the water-pump list; what an update destroyed is in the
\* damage it returns, which names tiles of the grid and sources of the lists,
\* and an update with no active disaster returns the empty damage.
C11_ArgumentsUntouched ==
    /\ [](/\ \A i \in DOMAIN damage.damagedTiles :
                 <<damage.damagedTiles[i].x, damage.damagedTiles[i].y>> \in Keys
          /\ Range(damage.destroyedPowerPlants) \subseteq Range(powerPlants)
          /\ Range(damage.destroyedWaterPumps) \subseteq Range(waterPumps)
          /\ damage.populationLost >= 0 /\ damage.jobsLost >= 0)
    /\ [][/\ tiles' = tiles /\ powerPlants' = powerPlants /\ waterPumps' = waterPumps
          /\ (lastCall' = "update" /\ activeDisasters = <<>>) => damage' = EmptyDamage]_vars

\* C11 witness: an update has returned a destroyed house and a destroyed power
\* plant, and both are still in the grid and in the list.
C11_Witness ==
    /\ lastCall = "update"
    /\ damage.populationLost > 0
    /\ damage.destroyedPowerPlants # <<>>
    /\ \E i \in DOMAIN damage.damagedTiles :
           LET k == <<damage.damagedTiles[i].x, damage.damagedTiles[i].y>>
           IN  tiles[k].zone = "residential" /\ tiles[k].developmentProgress >= 100
    /\ Range(damage.destroyedPowerPlants) \subseteq Range(powerPlants)

----------------------------------------------------------------------------
(* TrafficRenderer: src/src/rendering/TrafficRenderer.ts *)

TILE_SIZE == 32
TRAFFIC_light == 2000
TRAFFIC_medium == 10000
VEHICLE_baseSpeed == 30
VEHICLE_speedVariation == 10
VEHICLE_maxVehicles == 50
VEHICLE_spawnInterval == 500

Min(a, b) == IF a <= b THEN a ELSE b
Max(a, b) == IF a >= b THEN a ELSE b

\* calculateTargetVehicleCount(population); Math.floor of the scaled value is
\* the integer quotient (the two agree on every population up to 60,000).
calculateTargetVehicleCount(p) ==
    IF p < TRAFFIC_light
    THEN Max(0, Min(15, (5 * TRAFFIC_light + p * 10) \div TRAFFIC_light))
    ELSE IF p < TRAFFIC_medium
    THEN (15 * (TRAFFIC_medium - TRAFFIC_light) + (p - TRAFFIC_light) * 20)
             \div (TRAFFIC_medium - TRAFFIC_light)
    ELSE Min(VEHICLE_maxVehicles,
             (35 * TRAFFIC_medium + Min(TRAFFIC_medium, p - TRAFFIC_medium) * 15)
                 \div TRAFFIC_medium)

\* getRandomSpeed(): baseSpeed + (Math.random() * 2 - 1) * speedVariation lies in
\* [20, 40); the model draws the slowest speed and the base speed.
Speeds == {VEHICLE_baseSpeed - VEHICLE_speedVariation, VEHICLE_baseSpeed}

VehicleDirection == {"n", "s", "w", "e"}

DirDelta(dir) ==
    CASE dir = "n" -> <<0, -1>>
      [] dir = "s" -> <<0, 1>>
      [] dir = "w" -> <<-1, 0>>
      [] dir = "e" -> <<1, 0>>

oppositeDir(dir) ==
    CASE dir = "n" -> "s"
      [] dir = "s" -> "n"
      [] dir = "e" -> "w"
      [] dir = "w" -> "e"

\* getAdjacentRoads(gridX, gridY, roads, excludeDirection); excludeDirection is
\* "none" when the argument is left out.
MutAdjacentAllowsUTurn(gridX, gridY, rds, excludeDirection) ==
    { [pos |-> <<gridX + DirDelta(dir)[1], gridY + DirDelta(dir)[2]>>, direction |-> dir] :
          dir \in {d \in VehicleDirection :
                      <<gridX + DirDelta(d)[1], gridY + DirDelta(d)[2]>> \in rds} }
getAdjacentRoads(gridX, gridY, rds, excludeDirection) ==
    { [pos |-> <<gridX + DirDelta(dir)[1], gridY + DirDelta(dir)[2]>>, direction |-> dir] :
          dir \in {d \in VehicleDirection :
                      /\ ~(excludeDirection # "none" /\ d = oppositeDir(excludeDirection))
                      /\ <<gridX + DirDelta(d)[1], gridY + DirDelta(d)[2]>> \in rds} }

gridToWorld(g) ==
    [x |-> g[1] * TILE_SIZE + TILE_SIZE \div 2, y |-> g[2] * TILE_SIZE + TILE_SIZE \div 2]

\* The vehicle spawnVehicle builds on startRoad towards target (its colour has no
\* part in the simulation and is left out).
NewVehicle(id, startRoad, target, speed) ==
    [id |-> id,
     x |-> gridToWorld(startRoad).x, y |-> gridToWorld(startRoad).y,
     targetX |-> gridToWorld(target.pos).x, targetY |-> gridToWorld(target.pos).y,
     speed |-> speed, direction |-> target.direction,
     currentGridX |-> startRoad[1], currentGridY |-> startRoad[2],
     targetGridX |-> target.pos[1], targetGridY |-> target.pos[2]]

\* spawnVehicle(roads): <<>> is null, <<v>> the vehicle; one outcome per draw of
\* the start road, the adjacent road and the speed.
MutSpawnOnIsolatedRoad(rds, id) ==
    {<<>>} \cup { <<NewVehicle(id, s, [pos |-> s, direction |-> "n"], v)>> :
                      s \in rds, v \in Speeds }
spawnVehicle(rds, id) ==
    IF rds = {} THEN {<<>>}
    ELSE UNION { IF getAdjacentRoads(s[1], s[2], rds, "none") = {}
                 THEN {<<>>}
                 ELSE { <<NewVehicle(id, s, t, v)>> :
                            t \in getAdjacentRoads(s[1], s[2], rds, "none"), v \in Speeds }
                 : s \in rds }

\* pickNewTarget(vehicle, roads): the vehicle after the call, one outcome per
\* draw; going straight on with 70% is one of the draws among adjacentRoads.
MutPickKeepsStranded(vehicle, rds) ==
    IF getAdjacentRoads(vehicle.targetGridX, vehicle.targetGridY, rds, "none") = {}
    THEN { [vehicle EXCEPT !.currentGridX = vehicle.targetGridX,
                           !.currentGridY = vehicle.targetGridY] }
    ELSE { [vehicle EXCEPT !.currentGridX = vehicle.targetGridX,
                           !.currentGridY = vehicle.targetGridY,
                           !.targetGridX = t.pos[1], !.targetGridY = t.pos[2],
                           !.direction = t.direction,
                           !.targetX = gridToWorld(t.pos).x,
                           !.targetY = gridToWorld(t.pos).y] :
               t \in getAdjacentRoads(vehicle.targetGridX, vehicle.targetGridY, rds, "none") }
pickNewTarget(vehicle, rds) ==
    LET at == [vehicle EXCEPT !.currentGridX = vehicle.targetGridX,
                              !.currentGridY = vehicle.targetGridY]
        adjacentRoads == getAdjacentRoads(at.currentGridX, at.currentGridY, rds,
                                          vehicle.direction)
        allAdjacent == getAdjacentRoads(at.currentGridX, at.currentGridY, rds, "none")
        Towards(t) == [at EXCEPT !.targetGridX = t.pos[1], !.targetGridY = t.pos[2],
                                 !.direction = t.direction,
                                 !.targetX = gridToWorld(t.pos).x,
                                 !.targetY = gridToWorld(t.pos).y]
    IN  IF adjacentRoads = {}
        THEN IF allAdjacent = {}
             THEN { [at EXCEPT !.currentGridX = -1] }
             ELSE { Towards(t) : t \in allAdjacent }
        ELSE { Towards(t) : t \in adjacentRoads }

\* Math.sqrt(dx * dx + dy * dy), exact when the vehicle moves along an axis.
Distance(dx, dy) ==
    IF dy = 0 THEN Abs(dx)
    ELSE IF dx = 0 THEN Abs(dy)
    ELSE CHOOSE r \in 0..(Abs(dx) + Abs(dy)) :
             r * r <= dx * dx + dy * dy /\ (r + 1) * (r + 1) > dx * dx + dy * dy

AtTarget(vehicle) ==
    Distance(vehicle.targetX - vehicle.x, vehicle.targetY - vehicle.y) < 2

\* The body of update's loop for one vehicle.
MoveVehicle(vehicle, deltaTime, rds) ==
    LET dx == vehicle.targetX - vehicle.x
        dy == vehicle.targetY - vehicle.y
        distance == Distance(dx, dy)
        moveDistance == (vehicle.speed * deltaTime) \div 1000
    IN  IF distance < 2
        THEN pickNewTarget(vehicle, rds)
        ELSE IF moveDistance >= distance
        THEN { [vehicle EXCEPT !.x = vehicle.targetX, !.y = vehicle.targetY] }
        ELSE { [vehicle EXCEPT !.x = @ + (dx * moveDistance) \div distance,
                               !.y = @ + (dy * moveDistance) \div distance] }

RECURSIVE MoveAll(_, _, _, _)
MoveAll(vs, i, deltaTime, rds) ==
    IF i > Len(vs) THEN {<<>>}
    ELSE { <<m>> \o rest : m \in MoveVehicle(vs[i], deltaTime, rds),
                           rest \in MoveAll(vs, i + 1, deltaTime, rds) }

\* The list after the splices of the while loop that removes random vehicles
\* as long as there are more than targetCount.
SelectAt(vs, I) == SelectSeq([i \in DOMAIN vs |-> [i |-> i, v |-> vs[i]]],
                             LAMBDA e : e.i \in I)
MutTrimKeepsExcess(vs, targetCount) == {vs}
Trim(vs, targetCount) ==
    IF Len(vs) <= targetCount THEN {vs}
    ELSE { [j \in DOMAIN SelectAt(vs, I) |-> SelectAt(vs, I)[j].v] :
               I \in {J \in SUBSET DOMAIN vs : Cardinality(J) = Max(targetCount, 0)} }

\* update(deltaTime, roads, population) at performance.now() = currentTime: the
\* fields it leaves behind, with the vehicle it spawned (if any) and the
\* vehicles that were at their target, before and after pickNewTarget.
trafficUpdate(vs, nextId, lastSpawn, deltaTime, rds, pop, currentTime) ==
    IF pop = 0
    THEN { [vehicles |-> <<>>, nextVehicleId |-> nextId, lastSpawnTime |-> lastSpawn,
            spawned |-> <<>>, arrived |-> {}, trimmed |-> Len(vs)] }
    ELSE
    LET targetCount == calculateTargetVehicleCount(pop)
        gate == currentTime - lastSpawn > VEHICLE_spawnInterval
        spawns == IF gate /\ Len(vs) < targetCount /\ rds # {}
                  THEN spawnVehicle(rds, nextId)
                  ELSE {<<>>}
    IN  UNION { UNION { { [vehicles |-> SelectSeq(moved, LAMBDA v : v.currentGridX >= 0),
                           nextVehicleId |-> nextId + Len(sp),
                           lastSpawnTime |-> IF gate THEN currentTime ELSE lastSpawn,
                           spawned |-> sp,
                           trimmed |-> Len(vs \o sp) - Len(kept),
                           arrived |-> { [before |-> kept[i], after |-> moved[i]] :
                                             i \in {j \in DOMAIN kept : AtTarget(kept[j])} }]
                          : moved \in MoveAll(kept, 1, deltaTime, rds) }
                      : kept \in Trim(vs \o sp, targetCount) }
                : sp \in spawns }

\* The frame times (ms between two frames) and the inputs of the model.
FrameTimes == {300, 600}
Populations == {0, 400}
\* No road; a street round a corner with a road tile on its own; the far end of
\* that street.
RoadLayouts ==
    { {},
      {<<0, 0>>, <<1, 0>>, <<1, 1>>, <<3, 3>>},
      {<<1, 0>>, <<1, 1>>} }

\* A frame of the Game while the game is not paused: update runs.
TrafficFrame(deltaTimes, limit) ==
    \E deltaTime \in deltaTimes :
        /\ perfNow + deltaTime <= limit
        /\ perfNow' = perfNow + deltaTime
        /\ \E o \in trafficUpdate(vehicles, nextVehicleId, lastSpawnTime, deltaTime,
                                  roadTiles, population, perfNow + deltaTime) :
               /\ vehicles' = o.vehicles
               /\ nextVehicleId' = o.nextVehicleId
               /\ lastSpawnTime' = o.lastSpawnTime
               /\ trafficLog' =
                      [spawned |-> o.spawned, arrived |-> o.arrived,
                       trimmed |-> o.trimmed,
                       noRoadTime |-> IF roadTiles = {}
                                      THEN trafficLog.noRoadTime + deltaTime ELSE 0,
                       spawnAt |-> IF o.spawned # <<>> THEN perfNow + deltaTime
                                   ELSE trafficLog.spawnAt,
                       prevSpawnAt |-> IF o.spawned # <<>> THEN trafficLog.spawnAt
                                       ELSE trafficLog.prevSpawnAt,
                       updates |-> 1, changes |-> trafficLog.changes,
                       dt |-> deltaTime]
        /\ UNCHANGED <<roadTiles, population>>
        /\ UNCHANGED <<uiVars, gameVars, compVars, disasterVars, beyondTraffic>>

\* The city changes between two frames: roads are built or bulldozed, people
\* move in or out.
CityChanges(layouts, pops) ==
    /\ trafficLog.changes < MaxCityChanges
    /\ \E r \in layouts, p \in pops :
           /\ <<r, p>> # <<roadTiles, population>>
           /\ roadTiles' = r
           /\ population' = p
           /\ trafficLog' = [trafficLog EXCEPT
                                 !.noRoadTime = IF r = roadTiles THEN @ ELSE 0,
                                 !.updates = 0,
                                 !.changes = @ + 1]
    /\ UNCHANGED <<vehicles, nextVehicleId, lastSpawnTime, perfNow>>
    /\ UNCHANGED <<uiVars, gameVars, compVars, disasterVars, beyondTraffic>>

InitTraffic ==
    /\ UIInit
    /\ isInitialized = FALSE
    /\ ComponentIdle
    /\ tiles = Town(House, Shop, Road, Water)
    /\ powerPlants = <<>>
    /\ waterPumps = <<>>
    /\ spreadChance = FIRE_spreadChance
    /\ DisasterInit
    /\ SaveIdle
    /\ MonthIdle
    /\ ShellIdle
    /\ TrafficIdle

NextTraffic ==
    \/ TrafficFrame(FrameTimes, MaxTime)
    \/ CityChanges(RoadLayouts, Populations)

SpecTraffic == InitTraffic /\ [][NextTraffic]_vars

\* A busy street: two road tiles, a frame every 600 ms and so a spawn in every
\* update, from any population at the start to the populations the model
\* follows once the street is built.
BusyStreet == {<<0, 0>>, <<1, 0>>}
BusyPopulations == {0, 1, 400}

InitBusy ==
    /\ UIInit
    /\ isInitialized = FALSE
    /\ ComponentIdle
    /\ tiles = Town(House, Shop, Road, Water)
    /\ powerPlants = <<>>
    /\ waterPumps = <<>>
    /\ spreadChance = FIRE_spreadChance
    /\ DisasterInit
    /\ SaveIdle
    /\ MonthIdle
    /\ ShellIdle
    /\ vehicles = <<>>
    /\ nextVehicleId = 0
    /\ lastSpawnTime = 0
    /\ perfNow = 0
    /\ roadTiles = {}
    /\ population \in 0..MaxPopulation
    /\ trafficLog = [spawned |-> <<>>, arrived |-> {}, trimmed |-> 0, noRoadTime |-> 0,
                     spawnAt |-> -1, prevSpawnAt |-> -1, updates |-> 0,
                     changes |-> 0, dt |-> 0]

NextBusy ==
    \/ TrafficFrame({600}, MaxTimeBusy)
    \/ CityChanges({BusyStreet}, BusyPopulations)

SpecBusy == InitBusy /\ [][NextBusy]_vars

----------------------------------------------------------------------------
(* Properties of the traffic *)

VehicleIds(vs) == {vs[i].id : i \in DOMAIN vs}

\* The last step was an update with the roads and the population of this state.
JustUpdated == trafficLog.updates = 1

\* C12 as stated: once the updates with an empty road list add up to a spawn
\* interval, no vehicle is left.
C12_EmptyWithinSpawnInterval ==
    (JustUpdated /\ roadTiles = {} /\ trafficLog.noRoadTime >= VEHICLE_spawnInterval)
        => vehicles = <<>>

\* C12 amended: an update with an empty road list spawns nothing, removes every
\* vehicle that was at its target when the update began, and empties the list
\* when the population is 0; a vehicle that is left after it has not yet had the
\* time, in updates without roads before this one, to drive the length of a tile.
C12_DrainsOnArrival ==
    /\ []((JustUpdated /\ roadTiles = {}) =>
              /\ trafficLog.spawned = <<>>
              /\ population = 0 => vehicles = <<>>
              /\ \A i \in DOMAIN vehicles :
                     vehicles[i].speed * (trafficLog.noRoadTime - trafficLog.dt)
                         < TILE_SIZE * 1000)
    /\ [][(perfNow' # perfNow /\ roadTiles = {}) =>
              /\ VehicleIds(vehicles') \subseteq VehicleIds(vehicles)
              /\ \A i \in DOMAIN vehicles :
                     AtTarget(vehicles[i]) => vehicles[i].id \notin VehicleIds(vehicles')]_vars

\* C12 witness: with people in the city, the last vehicle has driven on for more
\* than a spawn interval after the roads were gone and was removed on arrival.
C12_Witness ==
    /\ JustUpdated /\ roadTiles = {} /\ population > 0
    /\ vehicles = <<>>
    /\ trafficLog.arrived # {}
    /\ trafficLog.noRoadTime - trafficLog.dt > VEHICLE_spawnInterval

CameFrom(a) == <<a.before.currentGridX, a.before.currentGridY>>
ArrivedAt(a) == <<a.before.targetGridX, a.before.targetGridY>>
NextTarget(a) == <<a.after.targetGridX, a.after.targetGridY>>
RoadsNextTo(k) == Neighbours(k) \cap roadTiles

\* C13: a vehicle that arrived at its target in the last update has, as its next
\* target, a road tile next to the tile it arrived at, and the tile it came from
\* only if no other road tile is next to it; if no road tile is next to it, the
\* vehicle has been removed by that update.
C13_NoUTurn ==
    JustUpdated =>
        \A a \in trafficLog.arrived :
            IF RoadsNextTo(ArrivedAt(a)) = {}
            THEN a.after.id \notin VehicleIds(vehicles)
            ELSE /\ a.after \in Range(vehicles)
                 /\ <<a.after.currentGridX, a.after.currentGridY>> = ArrivedAt(a)
                 /\ NextTarget(a) \in RoadsNextTo(ArrivedAt(a))
                 /\ NextTarget(a) = CameFrom(a) => RoadsNextTo(ArrivedAt(a)) = {CameFrom(a)}

\* C13 witness: a vehicle arrived at a corner, where the road it came on and one
\* other road meet, and turned into the other road.
C13_Witness ==
    /\ JustUpdated
    /\ \E a \in trafficLog.arrived :
           /\ CameFrom(a) \in roadTiles
           /\ Cardinality(RoadsNextTo(ArrivedAt(a))) = 2
           /\ NextTarget(a) # CameFrom(a)
           /\ a.after.direction # a.before.direction

\* C14: after an update the number of vehicles is at most the target of the
\* population passed in, and 0 for population 0; the target of a population is
\* at most 50 and at most the target of the next larger population.
C14_AtMostTarget ==
    /\ JustUpdated => /\ Len(vehicles) <= calculateTargetVehicleCount(population)
                      /\ population = 0 => vehicles = <<>>
    /\ calculateTargetVehicleCount(population) <= VEHICLE_maxVehicles
    /\ calculateTargetVehicleCount(population)
           <= calculateTargetVehicleCount(population + 1)

\* C14 witness: the population has dropped with more vehicles on the street than
\* its target allows, and the update has removed the excess.
C14_Witness ==
    /\ JustUpdated
    /\ population > 0
    /\ trafficLog.trimmed > 0
    /\ Len(vehicles) = calculateTargetVehicleCount(population)

\* C15: an update adds at most one vehicle; two spawns are more than the spawn
\* interval apart; and a spawned vehicle starts on a road tile that has a road
\* tile next to it, heading for such a tile.
C15_SpawnRate ==
    /\ [](/\ Len(trafficLog.spawned) <= 1
          /\ trafficLog.prevSpawnAt >= 0 =>
                 trafficLog.spawnAt - trafficLog.prevSpawnAt > VEHICLE_spawnInterval
          /\ (JustUpdated /\ trafficLog.spawned # <<>>) =>
                 LET v == trafficLog.spawned[1]
                     start == <<v.currentGridX, v.currentGridY>>
                 IN  /\ start \in roadTiles
                     /\ RoadsNextTo(start) # {}
                     /\ <<v.targetGridX, v.targetGridY>> \in RoadsNextTo(start))
    /\ [][/\ Cardinality(VehicleIds(vehicles') \ VehicleIds(vehicles)) <= 1
          /\ VehicleIds(vehicles') \ VehicleIds(vehicles) # {} =>
                 /\ perfNow' # perfNow
                 /\ VehicleIds(vehicles') \ VehicleIds(vehicles)
                        = VehicleIds(trafficLog'.spawned)]_vars

\* C15 witness: a second vehicle has just been spawned, 600 ms after the first,
\* among roads of which one stands alone.
C15_Witness ==
    /\ JustUpdated /\ trafficLog.spawned # <<>>
    /\ trafficLog.prevSpawnAt >= 0
    /\ trafficLog.spawnAt - trafficLog.prevSpawnAt = 600
    /\ \E r \in roadTiles : RoadsNextTo(r) = {}

----------------------------------------------------------------------------
(* The SaveManager: saves kept as JSON text in the browser's localStorage *)

SAVE_VERSION == "1.0.0"
MAX_SAVE_SLOTS == 10

\* JavaScript values. An object is the function from its own property names to
\* their values; a name that is not an own property reads as undefined.
Undefined == [k |-> "undefined"]
Null == [k |-> "null"]
Num(n) == [k |-> "number", n |-> n]
Str(s) == [k |-> "string", s |-> s]
Bool(b) == [k |-> "boolean", b |-> b]
Arr(items) == [k |-> "array", items |-> items]
Obj(props) == [k |-> "object", props |-> props]

typeof(v) ==
    IF v.k \in {"null", "array", "object"} THEN "object" ELSE v.k

isArray(v) == v.k = "array"

\* !v
Falsy(v) ==
    \/ v.k \in {"null", "undefined"}
    \/ v.k = "number" /\ v.n = 0
    \/ v.k = "string" /\ v.s = ""
    \/ v.k = "boolean" /\ ~v.b

hasProperty(o, f) == f \in DOMAIN o.props

get(o, f) == IF o.k = "object" /\ hasProperty(o, f) THEN o.props[f] ELSE Undefined

\* Two values are equal when they are of one kind and read the same
\* everywhere: a property set to undefined and a missing property read alike.
RECURSIVE deepEqual(_, _)
deepEqual(a, b) ==
    IF a.k # b.k THEN FALSE
    ELSE CASE a.k = "number" -> a.n = b.n
           [] a.k = "string" -> a.s = b.s
           [] a.k = "boolean" -> a.b = b.b
           [] a.k = "array" ->
                  /\ Len(a.items) = Len(b.items)
                  /\ \A i \in DOMAIN a.items : deepEqual(a.items[i], b.items[i])
           [] a.k = "object" ->
                  \A f \in DOMAIN a.props \cup DOMAIN b.props :
                      deepEqual(get(a, f), get(b, f))
           [] OTHER -> TRUE

\* A number no JSON text can hold, written by a serializer that is not
\* JSON.stringify.
MutNegativeAsNull(n) == IF n < 0 THEN [j |-> "null"] ELSE [j |-> "number", n |-> n]

\* The JSON text of a finite number.
jsonNumber(n) == [j |-> "number", n |-> n]

\* JSON.stringify, the text kept as the tree of its tokens: an undefined
\* property is left out of the text, an undefined array element is written as
\* null.
RECURSIVE stringify(_)
stringify(v) ==
    CASE v.k = "number" -> jsonNumber(v.n)
      [] v.k = "string" -> [j |-> "string", s |-> v.s]
      [] v.k = "boolean" -> [j |-> "boolean", b |-> v.b]
      [] v.k = "array" ->
             [j |-> "array",
              items |-> [i \in DOMAIN v.items |->
                            IF v.items[i].k = "undefined" THEN [j |-> "null"]
                            ELSE stringify(v.items[i])]]
      [] v.k = "object" ->
             [j |-> "object",
              members |-> [f \in {g \in DOMAIN v.props : v.props[g].k # "undefined"} |->
                              stringify(v.props[f])]]
      [] OTHER -> [j |-> "null"]

\* JSON.parse of a text JSON.stringify has written.
RECURSIVE parse(_)
parse(t) ==
    CASE t.j = "number" -> Num(t.n)
      [] t.j = "string" -> Str(t.s)
      [] t.j = "boolean" -> Bool(t.b)
      [] t.j = "array" -> Arr([i \in DOMAIN t.items |-> parse(t.items[i])])
      [] t.j = "object" -> Obj([f \in DOMAIN t.members |-> parse(t.members[f])])
      [] OTHER -> Null

\* Names are the strings of their characters.
UpperCase == <<"A", "B", "C", "D", "E", "F", "G", "H", "I", "J", "K", "L", "M",
               "N", "O", "P", "Q", "R", "S", "T", "U", "V", "W", "X", "Y", "Z">>
LowerCase == <<"a", "b", "c", "d", "e", "f", "g", "h", "i", "j", "k", "l", "m",
               "n", "o", "p", "q", "r", "s", "t", "u", "v", "w", "x", "y", "z">>
Digits == {"0", "1", "2", "3", "4", "5", "6", "7", "8", "9"}

toLowerCase(c) ==
    IF \E i \in DOMAIN UpperCase : UpperCase[i] = c
    THEN LowerCase[CHOOSE i \in DOMAIN UpperCase : UpperCase[i] = c]
    ELSE c

isSlugChar(c) == c \in Digits \/ \E i \in DOMAIN LowerCase : LowerCase[i] = c

\* replace(/[^a-z0-9]+/g, '-'): every run of other characters becomes one dash.
RECURSIVE dashRuns(_)
dashRuns(s) ==
    IF s = <<>> THEN <<>>
    ELSE IF isSlugChar(Head(s)) THEN <<Head(s)>> \o dashRuns(Tail(s))
    ELSE IF Len(s) > 1 /\ ~isSlugChar(s[2]) THEN dashRuns(Tail(s))
    ELSE <<"-">> \o dashRuns(Tail(s))

\* replace(/^-+|-+$/g, ''): the dashes at both ends go.
RECURSIVE trimDashes(_)
trimDashes(s) ==
    IF s = <<>> THEN <<>>
    ELSE IF Head(s) = "-" THEN trimDashes(Tail(s))
    ELSE IF s[Len(s)] = "-" THEN trimDashes(SubSeq(s, 1, Len(s) - 1))
    ELSE s

slugOf(name) ==
    LET lowered == [i \in DOMAIN name |-> toLowerCase(name[i])]
        trimmed == trimDashes(dashRuns(lowered))
    IN  SubSeq(trimmed, 1, Min(32, Len(trimmed)))

\* The key is the text simcity_save_<slug>_<timestamp>. A slug holds no
\* underscore, so the text is told by its slug and its timestamp, and it is
\* never the key of the index, simcity_save_index.
generateSaveKey(name, t) == [slug |-> slugOf(name), timestamp |-> t]

\* The index is kept as the array of the keys; a missing index and an empty one
\* read alike.
getSaveIndex(storage) == storage.index

updateSaveIndex(storage, keys) == [storage EXCEPT !.index = keys]

includes(keys, key) == \E i \in DOMAIN keys : keys[i] = key

hasItem(storage, key) == key \in DOMAIN storage.items

setItem(storage, key, text) ==
    [storage EXCEPT !.items = [q \in DOMAIN storage.items \cup {key} |->
                                  IF q = key THEN text ELSE storage.items[q]]]

removeItem(storage, key) ==
    [storage EXCEPT !.items = [q \in DOMAIN storage.items \ {key} |-> storage.items[q]]]

isVersionCompatible(version) == version = SAVE_VERSION

requiredFields ==
    {"tiles", "powerPlants", "waterPumps", "budget", "population", "commercialJobs",
     "industrialJobs", "gameYear", "gameMonth", "demand", "milestonesReached",
     "unlockedFeatures"}

Invalid(error) == [valid |-> FALSE, error |-> error]

validateSaveData(data) ==
    IF Falsy(data) \/ typeof(data) # "object" THEN Invalid("CORRUPTED_JSON")
    ELSE IF typeof(get(data, "version")) # "string" THEN Invalid("MISSING_FIELDS")
    ELSE IF ~isVersionCompatible(get(data, "version").s) THEN Invalid("WRONG_VERSION")
    ELSE IF typeof(get(data, "name")) # "string"
            \/ typeof(get(data, "timestamp")) # "number" THEN Invalid("MISSING_FIELDS")
    ELSE IF Falsy(get(data, "gameState"))
            \/ typeof(get(data, "gameState")) # "object" THEN Invalid("MISSING_FIELDS")
    ELSE LET gameState == get(data, "gameState")
         IN  IF gameState.k # "object"
                \/ \E field \in requiredFields : ~hasProperty(gameState, field)
             THEN Invalid("MISSING_FIELDS")
             ELSE IF ~isArray(get(gameState, "tiles"))
                     \/ Len(get(gameState, "tiles").items) = 0
             THEN Invalid("MISSING_FIELDS")
             ELSE IF typeof(get(gameState, "budget")) # "number"
                     \/ typeof(get(gameState, "population")) # "number"
             THEN Invalid("MISSING_FIELDS")
             ELSE IF ~isArray(get(gameState, "powerPlants"))
                     \/ ~isArray(get(gameState, "waterPumps"))
             THEN Invalid("MISSING_FIELDS")
             ELSE IF get(gameState, "policeStations").k # "undefined"
                     /\ ~isArray(get(gameState, "policeStations"))
             THEN Invalid("MISSING_FIELDS")
             ELSE [valid |-> TRUE, error |-> ""]

SaveAnswer(storage, success, error, key) ==
    [storage |-> storage, success |-> success, error |-> error, key |-> key]

\* saveGame(name, gameState, existingKey) on a storage, with Date.now() read as
\* t for the timestamp and as tKey for the key; itemFits and indexFits say
\* whether the browser's quota lets the two writes through.
saveGame(name, gameState, existingKey, storage, t, tKey, itemFits, indexFits) ==
    LET saveData == Obj([version |-> Str(SAVE_VERSION), name |-> Str(name),
                         timestamp |-> Num(t), gameState |-> gameState])
        saveJson == stringify(saveData)
        saveKey == IF existingKey # NoKey THEN existingKey
                   ELSE generateSaveKey(name, tKey)
    IN  IF existingKey = NoKey /\ Len(getSaveIndex(storage)) >= MAX_SAVE_SLOTS
        THEN SaveAnswer(storage, FALSE, "MAX_SLOTS_REACHED", saveKey)
        ELSE IF ~itemFits
        THEN SaveAnswer(storage, FALSE, "STORAGE_FULL", saveKey)
        ELSE LET stored == setItem(storage, saveKey, saveJson)
                 index == getSaveIndex(stored)
             IN  IF includes(index, saveKey)
                 THEN SaveAnswer(stored, TRUE, "", saveKey)
                 ELSE IF ~indexFits
                 THEN SaveAnswer(stored, FALSE, "UNKNOWN_ERROR", saveKey)
                 ELSE SaveAnswer(updateSaveIndex(stored, Append(index, saveKey)),
                                 TRUE, "", saveKey)

\* Two texts that are not JSON: the empty string and a text cut short.
EmptyText == [j |-> "empty"]
TruncatedText == [j |-> "truncated"]

\* JSON.parse throws a SyntaxError on them.
parseThrows(t) == t.j \in {"empty", "truncated"}

\* !localStorage.getItem(key): there is no item, or it is the empty string.
noSaveJson(storage, key) == ~hasItem(storage, key) \/ storage.items[key].j = "empty"

loadGame(key, storage) ==
    IF noSaveJson(storage, key)
    THEN [success |-> FALSE, error |-> "NOT_FOUND", data |-> Undefined]
    ELSE IF parseThrows(storage.items[key])
    THEN [success |-> FALSE, error |-> "CORRUPTED_JSON", data |-> Undefined]
    ELSE LET saveData == parse(storage.items[key])
             validation == validateSaveData(saveData)
         IN  IF ~validation.valid
             THEN [success |-> FALSE, error |-> validation.error, data |-> Undefined]
             ELSE [success |-> TRUE, error |-> "", data |-> saveData]

deleteSave(key, storage) ==
    IF ~hasItem(storage, key) THEN [storage |-> storage, deleted |-> FALSE]
    ELSE LET removed == removeItem(storage, key)
             index == getSaveIndex(removed)
         IN  [storage |-> updateSaveIndex(removed,
                                          SelectSeq(index, LAMBDA q : q # key)),
              deleted |-> TRUE]

\* ---- the snapshots the game hands to saveGame ----

TileObject(x, y, zone, more) ==
    Obj([f \in {"x", "y", "terrain", "zone", "hasRoad", "hasPowerLine", "hasWaterPipe",
                "isPowered", "hasWaterService", "landValue", "developmentProgress",
                "population", "jobs"} \cup DOMAIN more |->
            IF f \in DOMAIN more THEN more[f]
            ELSE CASE f = "x" -> Num(x)
                   [] f = "y" -> Num(y)
                   [] f = "terrain" -> Str("grass")
                   [] f = "zone" -> zone
                   [] f \in {"hasRoad", "hasPowerLine", "hasWaterPipe", "isPowered",
                             "hasWaterService"} -> Bool(FALSE)
                   [] OTHER -> Num(0)])

\* An empty tile, an abandoned house and a bulldozed lot whose density was
\* cleared by setting it to undefined.
EmptyTile(x, y) == TileObject(x, y, Null, <<>>)
AbandonedHouse(x, y) ==
    TileObject(x, y, Str("residential"),
               [zoneDensity |-> Str("low"), developmentProgress |-> Num(100),
                isAbandoned |-> Bool(TRUE), monthsWithoutPower |-> Num(3),
                abandonmentReason |-> Str("no_power")])
ClearedLot(x, y) == TileObject(x, y, Null, [zoneDensity |-> Undefined,
                                            hasRoad |-> Bool(TRUE)])

Snapshot(tileRows, plants, money, pop, milestones, medium) ==
    Obj([tiles |-> Arr(tileRows), powerPlants |-> Arr(plants), waterPumps |-> Arr(<<>>),
         policeStations |-> Arr(<<>>), budget |-> Num(money), population |-> Num(pop),
         commercialJobs |-> Num(0), industrialJobs |-> Num(0),
         gameYear |-> Num(1900), gameMonth |-> Num(1),
         demand |-> Obj([residential |-> Num(50), commercial |-> Num(pop),
                         industrial |-> Num(0)]),
         milestonesReached |-> Arr(milestones),
         unlockedFeatures |-> Obj([mediumDensity |-> Bool(medium)])])

NewCity ==
    Snapshot(<<Arr(<<EmptyTile(0, 0), EmptyTile(1, 0)>>)>>, <<>>, 10000, 0, <<>>, FALSE)
DebtCity ==
    Snapshot(<<Arr(<<AbandonedHouse(0, 0), ClearedLot(1, 0)>>)>>,
             <<Obj([x |-> Num(1), y |-> Num(1), capacity |-> Num(100),
                    output |-> Num(40)])>>,
             -250, 40, <<Num(100)>>, TRUE)
Snapshots == <<NewCity, DebtCity>>

SaveNames == {<<"A", " ", "b">>, <<"a", "-", "b", "!">>, <<"Z", "9">>}

\* ---- the SaveManager called from the dialogs ----

Logged(key, gameState) ==
    [q \in DOMAIN saveLog.saved \cup {key} |->
        IF q = key THEN gameState ELSE saveLog.saved[q]]

\* The key of a save that was deleted after a dialog had listed it.
StaleKey == [slug |-> <<"o", "l", "d">>, timestamp |-> 0]

getAvailableSlots(storage) == MAX_SAVE_SLOTS - Len(getSaveIndex(storage))

\* saveGame is called for a new save, over a save of the index, or over a save
\* that is no longer there.
CallSaveGame ==
    /\ saveLog.ops < MaxSaveOps
    /\ \E name \in SaveNames, s \in DOMAIN Snapshots,
          existing \in {NoKey, StaleKey}
                           \cup {localStorage.index[i] : i \in DOMAIN localStorage.index},
          elapsed \in {0, 1}, itemFits \in BOOLEAN, indexFits \in BOOLEAN :
           LET answer == saveGame(name, Snapshots[s], existing, localStorage,
                                  dateNow, dateNow + elapsed, itemFits, indexFits)
           IN  /\ localStorage' = answer.storage
               /\ dateNow' = dateNow + elapsed
               /\ saveLog' = [op |-> "save", key |-> answer.key, existing |-> existing,
                              success |-> answer.success, error |-> answer.error,
                              before |-> localStorage, loaded |-> Undefined,
                              saved |-> IF answer.success
                                        THEN Logged(answer.key, Snapshots[s])
                                        ELSE saveLog.saved,
                              ops |-> saveLog.ops + 1]
    /\ UNCHANGED <<uiVars, gameVars, compVars, disasterVars, trafficVars, beyondSave>>

\* The dialogs delete a save of their list.
CallDeleteSave ==
    /\ saveLog.ops < MaxSaveOps
    /\ \E i \in DOMAIN localStorage.index :
           LET key == localStorage.index[i]
               answer == deleteSave(key, localStorage)
           IN  /\ localStorage' = answer.storage
               /\ saveLog' = [op |-> "delete", key |-> key, existing |-> NoKey,
                              success |-> answer.deleted, error |-> "",
                              before |-> localStorage, loaded |-> Undefined,
                              saved |-> IF answer.deleted
                                        THEN [q \in DOMAIN saveLog.saved \ {key} |->
                                                 saveLog.saved[q]]
                                        ELSE saveLog.saved,
                              ops |-> saveLog.ops + 1]
    /\ UNCHANGED dateNow
    /\ UNCHANGED <<uiVars, gameVars, compVars, disasterVars, trafficVars, beyondSave>>

\* The saves of earlier sessions: none, or all slots but one taken.
EarlierSaves(n) ==
    [i \in 1..n |-> [slug |-> <<"o", "l", "d">>, timestamp |-> i]]

InitSave ==
    /\ UIInit
    /\ isInitialized = FALSE
    /\ ComponentIdle
    /\ tiles = Town(House, Shop, Road, Water)
    /\ powerPlants = <<>>
    /\ waterPumps = <<>>
    /\ spreadChance = FIRE_spreadChance
    /\ DisasterInit
    /\ TrafficIdle
    /\ MonthIdle
    /\ ShellIdle
    /\ \E n \in {0, MAX_SAVE_SLOTS - 1} :
           LET keys == EarlierSaves(n)
               text == stringify(Obj([version |-> Str(SAVE_VERSION),
                                      name |-> Str(<<"o", "l", "d">>),
                                      timestamp |-> Num(0), gameState |-> NewCity]))
               held == {keys[i] : i \in DOMAIN keys}
           IN  /\ localStorage = [index |-> keys, items |-> [q \in held |-> text]]
               /\ saveLog = [op |-> "none", key |-> NoKey, existing |-> NoKey,
                             success |-> FALSE, error |-> "",
                             before |-> [index |-> <<>>, items |-> <<>>],
                             loaded |-> Undefined,
                             saved |-> [q \in held |-> NewCity], ops |-> 0]
    /\ dateNow = MAX_SAVE_SLOTS

NextSave == CallSaveGame \/ CallDeleteSave

SpecSave == InitSave /\ [][NextSave]_vars

----------------------------------------------------------------------------
(* The monthly simulation of the game store, as the specification describes  *)
(* it, and the notifications the Game's tick shows for what it reports       *)

\* A counter abandons the building when it reaches this many months
\* ("No Power (3+ months)").
ABANDONMENT_MONTHS == 3

\* Crime and pollution count as high above this level.
HIGH_LEVEL == 80

\* The progress a serviced lot gains in a month, and what a developed lot holds.
DEVELOPMENT_STEP == 50
LOT_CAPACITY == 10

\* A counter that crosses the threshold one month early.
MutAbandonsEarly(months) == months >= ABANDONMENT_MONTHS - 1

abandons(months) == months >= ABANDONMENT_MONTHS

\* What a month measures at the lot.
Readings ==
    [roadAccess : {TRUE}, isPowered : BOOLEAN, hasWaterService : BOOLEAN,
     crime : {HIGH_LEVEL, HIGH_LEVEL + 10}, pollution : {0, HIGH_LEVEL + 10}]

\* The counters of a developed lot after a month: each counts the months in a
\* row its condition has held and returns to 0 the month the condition clears;
\* pollution counts for residential lots only.
CountMonths(t, r) ==
    [t EXCEPT
        !.monthsWithoutPower = IF r.isPowered THEN 0 ELSE @ + 1,
        !.monthsWithoutWater = IF r.hasWaterService THEN 0 ELSE @ + 1,
        !.monthsWithHighCrime = IF r.crime > HIGH_LEVEL THEN @ + 1 ELSE 0,
        !.monthsWithHighPollution =
            IF t.zone = "residential" /\ r.pollution > HIGH_LEVEL THEN @ + 1 ELSE 0]

\* The reason of the first counter, in the order power, water, crime,
\* pollution, that has reached the threshold; "none" while none has.
AbandonmentReasonOf(t) ==
    IF abandons(t.monthsWithoutPower) THEN "no_power"
    ELSE IF abandons(t.monthsWithoutWater) THEN "no_water"
    ELSE IF abandons(t.monthsWithHighCrime) THEN "high_crime"
    ELSE IF abandons(t.monthsWithHighPollution) THEN "high_pollution"
    ELSE "none"

Develop(t, r) ==
    IF r.roadAccess /\ r.isPowered /\ r.hasWaterService
    THEN LET progress == Min(100, t.developmentProgress + DEVELOPMENT_STEP)
         IN  [t EXCEPT !.developmentProgress = progress,
                       !.population = IF progress = 100 /\ t.zone = "residential"
                                      THEN LOT_CAPACITY ELSE 0,
                       !.jobs = IF progress = 100 /\ t.zone # "residential"
                                THEN LOT_CAPACITY ELSE 0]
    ELSE t

\* The zone lifecycle of runMonthlySimulation at one lot: an abandoned lot
\* stays as it is, a lot under development advances while it has road, power
\* and water, a developed lot counts its months of trouble and is abandoned
\* when a counter reaches the threshold.
lotAfterMonth(t, r) ==
    IF t.isAbandoned THEN [lot |-> t, events |-> <<>>]
    ELSE IF t.developmentProgress < 100 THEN [lot |-> Develop(t, r), events |-> <<>>]
    ELSE LET counted == CountMonths(t, r)
             reason == AbandonmentReasonOf(counted)
         IN  IF reason = "none" THEN [lot |-> counted, events |-> <<>>]
             ELSE [lot |-> [counted EXCEPT !.isAbandoned = TRUE,
                                           !.abandonmentReason = reason,
                                           !.population = 0, !.jobs = 0],
                   events |-> <<[reason |-> reason]>>]

\* A ledger that reports every month in the red as the first one.
MutAlwaysEntered(balance, wasInDeficit) ==
    IF balance < 0 THEN "entered_deficit" ELSE "none"

\* checkBudgetDeficitEvent: null ("none") while the budget is not negative,
\* entered_deficit the month it turns negative, still_in_deficit after that.
checkBudgetDeficitEvent(balance, wasInDeficit) ==
    IF balance >= 0 THEN "none"
    ELSE IF wasInDeficit THEN "still_in_deficit"
    ELSE "entered_deficit"

Notice(title, about, count, detail) ==
    [title |-> title, about |-> about, count |-> count, type |-> "warning",
     detail |-> detail]

\* The tick's notification for a deficit event.
DeficitNotices(deficitEvent) ==
    IF deficitEvent = "none" THEN <<>>
    ELSE IF deficitEvent = "entered_deficit"
    THEN <<Notice("Warning: Budget in deficit!", "", 0, "Your city is losing money")>>
    ELSE IF deficitEvent = "still_in_deficit"
    THEN <<Notice("Budget still negative", "", 0, "Increase taxes or reduce expenses")>>
    ELSE <<>>

reasonLabels ==
    [no_power |-> "no power", no_water |-> "no water", high_crime |-> "high crime",
     high_pollution |-> "high pollution"]

\* The tick's notification for the buildings abandoned this month.
AbandonmentNotices(abandonmentEvents) ==
    IF Len(abandonmentEvents) = 0 THEN <<>>
    ELSE IF Len(abandonmentEvents) = 1
    THEN <<Notice("Building abandoned",
                  IF abandonmentEvents[1].reason \in DOMAIN reasonLabels
                  THEN reasonLabels[abandonmentEvents[1].reason]
                  ELSE "poor conditions",
                  1, "Bulldoze to clear and rebuild")>>
    ELSE <<Notice("buildings abandoned", "", Len(abandonmentEvents),
                  "Check city conditions and bulldoze to rebuild")>>

\* The monthly net change of the budget: revenue minus maintenance.
NetChanges == {-400, 0, 400}

\* One monthly tick: the simulation runs, then the tick asks for the deficit
\* event and for the abandonment events and shows their notifications.
MonthlyTick ==
    /\ monthLog.months < MaxMonths
    /\ \E r \in Readings, net \in NetChanges :
           LET after == lotAfterMonth(lot, r)
               balance == budget + net
               deficitEvent == checkBudgetDeficitEvent(balance, isInDeficit)
               followed == lot.developmentProgress = 100 /\ ~lot.isAbandoned
           IN  /\ lot' = after.lot
               /\ lastAbandonmentEvents' = after.events
               /\ budget' = balance
               /\ isInDeficit' = (balance < 0)
               /\ notices' = DeficitNotices(deficitEvent)
                                 \o AbandonmentNotices(after.events)
               /\ monthLog' = [power |-> IF followed
                                         THEN Append(monthLog.power, r.isPowered)
                                         ELSE monthLog.power,
                               budgetBefore |-> budget,
                               event |-> deficitEvent,
                               months |-> monthLog.months + 1]
    /\ UNCHANGED <<uiVars, gameVars, compVars, disasterVars, trafficVars, saveVars,
                   beyondMonth>>

\* The player bulldozes an abandoned lot and zones it again.
BulldozeAndZone ==
    /\ lot.isAbandoned
    /\ \E zone \in {"residential", "commercial"} :
           /\ lot' = EmptyLot(zone)
           /\ monthLog' = [monthLog EXCEPT !.power = <<>>]
    /\ UNCHANGED <<budget, isInDeficit, lastAbandonmentEvents, notices>>
    /\ UNCHANGED <<uiVars, gameVars, compVars, disasterVars, trafficVars, saveVars,
                   beyondMonth>>

InitMonth ==
    /\ UIInit
    /\ isInitialized = TRUE
    /\ ComponentIdle
    /\ tiles = Town(House, Shop, Road, Water)
    /\ powerPlants = <<>>
    /\ waterPumps = <<>>
    /\ spreadChance = FIRE_spreadChance
    /\ DisasterInit
    /\ SaveIdle
    /\ TrafficIdle
    /\ ShellIdle
    /\ \E zone \in {"residential", "commercial"} :
           /\ lot = EmptyLot(zone)
           /\ monthLog = [power |-> <<>>, budgetBefore |-> 0, event |-> "none",
                          months |-> 0]
    /\ budget \in {0, 400}
    /\ isInDeficit = FALSE
    /\ lastAbandonmentEvents = <<>>
    /\ notices = <<>>

NextMonth == MonthlyTick \/ BulldozeAndZone

SpecMonth == InitMonth /\ [][NextMonth]_vars

\* The months in a row, up to the last one, the followed lot has been without
\* power.
RECURSIVE Outage(_)
Outage(readings) ==
    IF readings = <<>> \/ readings[Len(readings)] THEN 0
    ELSE 1 + Outage(SubSeq(readings, 1, Len(readings) - 1))

\* C17: the no-power counter of a developed lot is 0 after a month with power;
\* the lot is abandoned for want of power only by an outage of three months in
\* a row, so an outage of two months followed by a month with power abandons
\* nothing; and an outage of three months in a row leaves the lot abandoned
\* with reason no_power.
C17_PowerOutage ==
    LET outage == Outage(monthLog.power)
    IN  /\ (monthLog.power # <<>> /\ outage = 0) => lot.monthsWithoutPower = 0
        /\ (lot.isAbandoned /\ lot.abandonmentReason = "no_power")
               => outage = ABANDONMENT_MONTHS
        /\ outage >= ABANDONMENT_MONTHS
               => lot.isAbandoned /\ lot.abandonmentReason = "no_power"
        /\ (outage < ABANDONMENT_MONTHS /\ ~lot.isAbandoned)
               => lot.monthsWithoutPower = outage

\* A developed lot has been two months without power, then power came back,
\* and the lot is in use.
C17_Witness ==
    /\ Len(monthLog.power) >= 3
    /\ SubSeq(monthLog.power, Len(monthLog.power) - 2, Len(monthLog.power))
           = <<FALSE, FALSE, TRUE>>
    /\ ~lot.isAbandoned
    /\ lot.developmentProgress = 100

NoticeTitles == {notices[i].title : i \in DOMAIN notices}

\* C18: the month's deficit event is entered_deficit exactly when the budget is
\* negative and was not at the end of the month before, still_in_deficit
\* exactly when it is negative and was so, and none exactly when it is not
\* negative; each event is shown under its own notification and never both.
C18_DeficitEvents ==
    monthLog.months > 0 =>
        /\ monthLog.event \in {"none", "entered_deficit", "still_in_deficit"}
        /\ monthLog.event = "entered_deficit"
               <=> (budget < 0 /\ monthLog.budgetBefore >= 0)
        /\ monthLog.event = "still_in_deficit"
               <=> (budget < 0 /\ monthLog.budgetBefore < 0)
        /\ monthLog.event = "none" <=> budget >= 0
        /\ isInDeficit <=> budget < 0
        /\ "Warning: Budget in deficit!" \in NoticeTitles
               <=> monthLog.event = "entered_deficit"
        /\ "Budget still negative" \in NoticeTitles
               <=> monthLog.event = "still_in_deficit"

\* The budget has been negative two months in a row and the second month has
\* reported still_in_deficit under its own notification.
C18_Witness ==
    /\ monthLog.months >= 2
    /\ budget < 0
    /\ monthLog.budgetBefore < 0
    /\ monthLog.event = "still_in_deficit"
    /\ "Budget still negative" \in NoticeTitles

----------------------------------------------------------------------------
(* Fires and earthquakes on every city: how a fire starts and what it ignites *)

\* Fires and earthquakes, several at once.
NextBlaze ==
    \/ CallStartDisaster({"fire", "earthquake"}, {})
    \/ CallUpdate

SpecBlaze == InitDisaster /\ [][NextBlaze]_vars

NothingDeveloped == \A k \in Keys : ~Developed(tiles[k])

\* The call of startDisaster that has just returned gave back null: it issued
\* no id.
ReturnedNull ==
    lastCall = "startDisaster" /\ currentGameTick > Len(issuedIds)

\* C19: on a grid with no zoned tile at development progress 100 or more no
\* call of startDisaster registers a fire, a call that returns null leaves the
\* active disasters, and so their affected tiles, as they were, and a fire that
\* is registered burns on exactly one tile, which is zoned and at development
\* progress 100 or more.
C19_FireStart ==
    [][(lastCall' = "startDisaster" /\ currentGameTick' # currentGameTick) =>
           LET started == {i \in DOMAIN activeDisasters' :
                               /\ activeDisasters'[i].type = "fire"
                               /\ activeDisasters'[i].id \notin ActiveIds}
           IN  /\ \A i \in started :
                      \E k \in Keys :
                          /\ activeDisasters'[i].affectedTiles = {k}
                          /\ HasZone(tiles[k])
                          /\ tiles[k].developmentProgress >= 100
               /\ NothingDeveloped => started = {}
               /\ issuedIds' = issuedIds => activeDisasters' = activeDisasters]_vars

\* An earthquake is active in a city with nothing developed, and a call of
\* startDisaster has just returned null.
C19_Witness ==
    /\ NothingDeveloped
    /\ ReturnedNull
    /\ Active("earthquake") # {}
    /\ Active("fire") = {}

\* C20: in an update a fire takes in only tiles of the map that are not water,
\* carry a zone or a road and lie next to a tile of its active set as the update
\* found it; and an update in which the fire's tick count is not a multiple of
\* the spread interval ignites nothing, burns nothing and reports no damage.
C20_Ignition ==
    [][\A d \in UpdatedNow("fire") :
           \A i \in DOMAIN activeDisasters' :
               activeDisasters'[i].id = d.id =>
                   LET ignited == activeDisasters'[i].affectedTiles \ d.affectedTiles
                   IN  /\ \A n \in ignited :
                              /\ InMap(n[1], n[2])
                              /\ tiles[n].terrain # "water"
                              /\ HasZone(tiles[n]) \/ tiles[n].hasRoad
                              /\ Neighbours(n) \cap d.affectedTiles # {}
                       /\ activeDisasters'[i].currentTick % FIRE_spreadInterval # 0 =>
                              /\ ignited = {}
                              /\ activeDisasters'[i].burnedTiles = d.burnedTiles
                              /\ history'[d.id].last = EmptyDamage]_vars

\* A fire has taken in a road next to its seed tile on a spread tick.
C20_Witness ==
    \E d \in Active("fire") :
        /\ d.id \in DOMAIN history
        /\ d.currentTick % FIRE_spreadInterval = 0
        /\ \E n \in d.affectedTiles :
               /\ tiles[n].hasRoad
               /\ n \notin history[d.id].first.affectedTiles

\* C21 as stated: the index never holds more than MAX_SAVE_SLOTS keys and
\* getAvailableSlots() is never negative; a saveGame without existingKey with
\* all slots in use returns MAX_SLOTS_REACHED, and overwriting a key of the
\* index succeeds, when the write goes through, and leaves the number of slots
\* as it was.
C21_SlotLimit ==
    /\ Len(getSaveIndex(localStorage)) <= MAX_SAVE_SLOTS
    /\ getAvailableSlots(localStorage) >= 0
    /\ (saveLog.op = "save" /\ saveLog.existing = NoKey
        /\ Len(getSaveIndex(saveLog.before)) >= MAX_SAVE_SLOTS)
           => (~saveLog.success /\ saveLog.error = "MAX_SLOTS_REACHED")
    /\ (saveLog.op = "save" /\ includes(getSaveIndex(saveLog.before), saveLog.existing))
           => /\ saveLog.success \/ saveLog.error = "STORAGE_FULL"
              /\ getSaveIndex(localStorage) = getSaveIndex(saveLog.before)

\* C27 as stated: whenever saveGame returns success: false the stored saves and
\* the save index are exactly as they were before the call, and every key of
\* the save index has a stored save behind it.
C27_FailedSaveLeavesStorage ==
    /\ (saveLog.op = "save" /\ ~saveLog.success) => localStorage = saveLog.before
    /\ \A i \in DOMAIN getSaveIndex(localStorage) :
           hasItem(localStorage, getSaveIndex(localStorage)[i])

\* ---- loadGame on saves that were damaged in storage ----

With(o, f, v) == Obj([g \in DOMAIN o.props \cup {f} |-> IF g = f THEN v ELSE o.props[g]])

\* The fields of SaveData and of SavedGameState, and the kind each one is
\* declared with.
SaveDataFields == <<"version", "name", "timestamp", "gameState">>
SavedGameStateFields ==
    <<"tiles", "powerPlants", "waterPumps", "policeStations", "budget", "population",
      "commercialJobs", "industrialJobs", "gameYear", "gameMonth", "demand",
      "milestonesReached", "unlockedFeatures">>

DeclaredKind(f) ==
    CASE f \in {"version", "name"} -> "string"
      [] f \in {"timestamp", "budget", "population", "commercialJobs", "industrialJobs",
                "gameYear", "gameMonth"} -> "number"
      [] f \in {"tiles", "powerPlants", "waterPumps", "policeStations",
                "milestonesReached"} -> "array"
      [] OTHER -> "object"

\* What a damaged save holds in the place of a field: nothing (the property is
\* gone from the text), null, or a value of another kind.
Damages ==
    <<Undefined, Null, Num(5), Str("0.9.0"), Bool(FALSE), Arr(<<>>), Obj(<<>>)>>

GoodSave ==
    Obj([version |-> Str(SAVE_VERSION), name |-> Str("city"), timestamp |-> Num(7),
         gameState |-> DebtCity])

\* The texts found under the key: the save as saveGame wrote it, the save with
\* one field damaged, JSON texts that hold no object, and texts that are not
\* JSON.
StoredTexts ==
    <<stringify(GoodSave)>>
    \o [i \in 1..(Len(SaveDataFields) * Len(Damages)) |->
           stringify(With(GoodSave, SaveDataFields[((i - 1) \div Len(Damages)) + 1],
                          Damages[((i - 1) % Len(Damages)) + 1]))]
    \o [i \in 1..(Len(SavedGameStateFields) * Len(Damages)) |->
           stringify(With(GoodSave, "gameState",
                          With(DebtCity,
                               SavedGameStateFields[((i - 1) \div Len(Damages)) + 1],
                               Damages[((i - 1) % Len(Damages)) + 1])))]
    \o <<stringify(Null), stringify(Num(0)), stringify(Num(5)), stringify(Str("city")),
         stringify(Bool(TRUE)), stringify(Arr(<<GoodSave>>)), EmptyText, TruncatedText>>

LoadKey == [slug |-> <<"c", "i", "t", "y">>, timestamp |-> 7]

\* The load dialog calls loadGame for a key of its list; the catch around the
\* whole of loadGame turns an exception of localStorage.getItem into an answer.
CallLoadGame ==
    /\ saveLog.ops < MaxSaveOps
    /\ \E key \in {LoadKey, StaleKey}, readable \in BOOLEAN :
           LET answer == IF readable THEN loadGame(key, localStorage)
                         ELSE [success |-> FALSE, error |-> "UNKNOWN_ERROR",
                               data |-> Undefined]
           IN  saveLog' = [op |-> "load", key |-> key, existing |-> NoKey,
                           success |-> answer.success, error |-> answer.error,
                           before |-> localStorage, loaded |-> answer.data,
                           saved |-> saveLog.saved, ops |-> saveLog.ops + 1]
    /\ UNCHANGED <<localStorage, dateNow>>
    /\ UNCHANGED <<uiVars, gameVars, compVars, disasterVars, trafficVars, beyondSave>>

InitLoad ==
    /\ UIInit
    /\ isInitialized = FALSE
    /\ ComponentIdle
    /\ tiles = Town(House, Shop, Road, Water)
    /\ powerPlants = <<>>
    /\ waterPumps = <<>>
    /\ spreadChance = FIRE_spreadChance
    /\ DisasterInit
    /\ TrafficIdle
    /\ MonthIdle
    /\ ShellIdle
    /\ \E i \in DOMAIN StoredTexts :
           localStorage = [index |-> <<LoadKey>>, items |-> [q \in {LoadKey} |-> StoredTexts[i]]]
    /\ dateNow = MAX_SAVE_SLOTS
    /\ saveLog = [op |-> "none", key |-> NoKey, existing |-> NoKey, success |-> FALSE,
                  error |-> "", before |-> [index |-> <<>>, items |-> <<>>],
                  loaded |-> Undefined, saved |-> <<>>, ops |-> 0]

NextLoad == CallLoadGame

SpecLoad == InitLoad /\ [][NextLoad]_vars

\* A value is of the kind its field is declared with.
OfKind(v, kind) == IF kind = "object" THEN v.k = "object" ELSE v.k = kind

\* A required field of the save is absent or is not of its declared kind.
AbsentOrMistyped(data) ==
    \/ \E f \in {"version", "name", "timestamp", "gameState"} :
           ~OfKind(get(data, f), DeclaredKind(f))
    \/ \E f \in requiredFields :
           ~OfKind(get(get(data, "gameState"), f), DeclaredKind(f))

\* C22 as stated: loadGame answers without throwing and leaves storage as it
\* was; the answer is NOT_FOUND when the key has no stored value (or an empty
\* one), CORRUPTED_JSON when the value is not parseable JSON or not an object,
\* WRONG_VERSION when the version string differs from SAVE_VERSION,
\* MISSING_FIELDS when a required top-level or gameState field is absent or
\* mistyped, and success with the parsed data only when every validation check
\* passes.
C22_LoadAnswers ==
    (saveLog.op = "load" /\ saveLog.error # "UNKNOWN_ERROR") =>
        LET storage == saveLog.before
            key == saveLog.key
            text == storage.items[key]
            data == parse(text)
        IN  /\ localStorage = storage
            /\ noSaveJson(storage, key) => saveLog.error = "NOT_FOUND"
            /\ (~noSaveJson(storage, key)
                /\ (parseThrows(text) \/ typeof(data) # "object" \/ Falsy(data)))
                   => saveLog.error = "CORRUPTED_JSON"
            /\ (~noSaveJson(storage, key) /\ ~parseThrows(text)
                /\ data.k \in {"object", "array"})
                   => /\ (typeof(get(data, "version")) = "string"
                          /\ get(data, "version").s # SAVE_VERSION)
                             => saveLog.error = "WRONG_VERSION"
                      /\ (get(data, "version") = Str(SAVE_VERSION) /\ AbsentOrMistyped(data))
                             => saveLog.error = "MISSING_FIELDS"
                      /\ saveLog.success
                             => /\ validateSaveData(data).valid
                                /\ saveLog.loaded = data

----------------------------------------------------------------------------
(* Keyboard shortcuts of the HUD: src/src/ui/PausedOverlay.tsx (Toolbar),
   src/src/ui/SpeedControls.tsx *)

OverlayType == {"none", "power", "water", "crime", "pollution"}

\* The keys pressed, each with the event.key (lower-cased) and the event.code
\* of its keydown event.
KeyEvents ==
    { [key |-> "1", code |-> "Digit1"], [key |-> "2", code |-> "Digit2"],
      [key |-> "3", code |-> "Digit3"], [key |-> "4", code |-> "Digit4"],
      [key |-> "1", code |-> "Numpad1"], [key |-> " ", code |-> "Space"],
      [key |-> "r", code |-> "KeyR"], [key |-> "b", code |-> "KeyB"],
      [key |-> "escape", code |-> "Escape"] }

SHORTCUT_TO_OVERLAY ==
    [k \in {"1", "2", "3", "4"} |->
        CASE k = "1" -> "power" [] k = "2" -> "water" [] k = "3" -> "crime"
          [] OTHER -> "pollution"]

\* The tool shortcuts among the keys pressed; Escape deselects.
SHORTCUT_TO_TOOL ==
    [k \in {"r", "b", "escape"} |->
        CASE k = "r" -> "residential" [] k = "b" -> "bulldoze" [] OTHER -> "none"]

toggleOverlay(overlay) ==
    activeOverlay' = IF activeOverlay = overlay THEN "none" ELSE overlay

setTool(toolId) == selectedTool' = toolId

\* Toolbar's keydown listener.
ToolbarHandleKeyDown(e) ==
    IF e.key \in DOMAIN SHORTCUT_TO_OVERLAY
    THEN toggleOverlay(SHORTCUT_TO_OVERLAY[e.key]) /\ UNCHANGED selectedTool
    ELSE IF e.key \in DOMAIN SHORTCUT_TO_TOOL
    THEN setTool(SHORTCUT_TO_TOOL[e.key]) /\ UNCHANGED activeOverlay
    ELSE UNCHANGED <<activeOverlay, selectedTool>>

\* SpeedControls' keydown listener.
SpeedControlsHandleKeyDown(e) ==
    CASE e.code = "Space" -> togglePause
      [] e.code \in {"Digit1", "Numpad1"} -> setGameSpeed("normal")
      [] e.code \in {"Digit2", "Numpad2"} -> setGameSpeed("fast")
      [] OTHER -> UNCHANGED uiVars

\* A key is pressed with the HUD shown and no input focused: the browser hands
\* the event to every keydown listener of the window.
KeyDown ==
    /\ HUDShown
    /\ \E e \in KeyEvents :
           /\ ToolbarHandleKeyDown(e)
           /\ SpeedControlsHandleKeyDown(e)
           /\ keyLog' = [key |-> e.code, gameSpeed |-> gameSpeed, isPaused |-> isPaused,
                         activeOverlay |-> activeOverlay, selectedTool |-> selectedTool]
    /\ UNCHANGED <<gameVars, compVars, disasterVars, trafficVars, saveVars, monthVars,
                   beyondHud>>

\* The player leaves the splash screen.
StartGameClicked ==
    /\ startGame
    /\ UNCHANGED <<gameVars, compVars, disasterVars, beyondLoop>>

NextKeys == StartGameClicked \/ KeyDown

SpecKeys == InitTimer /\ [][NextKeys]_vars

\* C29 as stated: a key press triggers one action: an overlay key (1 to 4)
\* changes only the active overlay and leaves gameSpeed and isPaused as they
\* were, and a speed key (1, 2, Space) changes only the game speed and leaves
\* the active overlay as it was.
C29_OneActionPerKey ==
    /\ keyLog.key \in {"Digit1", "Digit2", "Digit3", "Digit4", "Numpad1"}
           => gameSpeed = keyLog.gameSpeed /\ isPaused = keyLog.isPaused
    /\ keyLog.key \in {"Digit1", "Digit2", "Numpad1", "Space"}
           => activeOverlay = keyLog.activeOverlay

TilesOf(list) == {<<list[i].x, list[i].y>> : i \in DOMAIN list}

NoRepeats(list) == \A i, j \in DOMAIN list : list[i] = list[j] => i = j

\* C25 as stated: in the damage one update call returns, also with several
\* disasters over one tile, no tile is twice in damagedTiles and no source twice
\* in destroyedPowerPlants or destroyedWaterPumps, and populationLost and
\* jobsLost are the sums of population and jobs over the distinct damaged tiles.
C25_NoDoubleCounting ==
    lastCall = "update" =>
        /\ NoRepeats(damage.damagedTiles)
        /\ NoRepeats(damage.destroyedPowerPlants)
        /\ NoRepeats(damage.destroyedWaterPumps)
        /\ damage.populationLost = SumOver(TilesOf(damage.damagedTiles), tiles, "population")
        /\ damage.jobsLost = SumOver(TilesOf(damage.damagedTiles), tiles, "jobs")

----------------------------------------------------------------------------
(* Notifications: useUIStore.showNotification / clearNotification
   (src/unnamed/part_002) and the Notification component
   (src/src/ui/PausedOverlay.tsx) *)

AUTO_DISMISS_DURATION == 4000
ANIMATION_DURATION == 300

\* The time between two events of the model, in ms.
ClockStep == ANIMATION_DURATION \div 3

\* The effect of the component for a new value of the store's notification:
\* the cleanup of the previous run clears its timeout, then the effect runs.
NotificationEffect(n, t) ==
    IF n # 0
    THEN /\ isVisible' = TRUE
         /\ isExiting' = FALSE
         /\ autoDismiss' = [for |-> n, due |-> t + AUTO_DISMISS_DURATION, manual |-> FALSE]
    ELSE /\ isVisible' = FALSE
         /\ autoDismiss' = NoTimer
         /\ UNCHANGED isExiting

\* handleDismiss(): the exit animation starts and a timeout is set that nothing
\* clears.
handleDismiss(manual) ==
    /\ isExiting' = TRUE
    /\ exitTimers' = exitTimers \cup {[for |-> notification,
                                       due |-> noteClock + ANIMATION_DURATION,
                                       manual |-> manual]}

\* showNotification(message, type, subtitle): the store holds a new object.
ShowNotification ==
    /\ Len(noteLog.shown) < MaxNotes
    /\ LET n == Len(noteLog.shown) + 1
       IN  /\ notification' = n
           /\ NotificationEffect(n, noteClock)
           /\ noteLog' = [noteLog EXCEPT !.shown = Append(@, noteClock)]
    /\ UNCHANGED <<exitTimers, noteClock>>
    /\ UNCHANGED <<uiVars, gameVars, compVars, disasterVars, trafficVars, saveVars,
                   monthVars, hudVars, beyondNote>>

\* The player clicks the close button of the notification on screen.
ClickClose ==
    /\ notification # 0 /\ isVisible
    /\ noteLog.clicks < MaxClicks
    /\ handleDismiss(TRUE)
    /\ noteLog' = [noteLog EXCEPT !.clicks = @ + 1]
    /\ UNCHANGED <<notification, isVisible, autoDismiss, noteClock>>
    /\ UNCHANGED <<uiVars, gameVars, compVars, disasterVars, trafficVars, saveVars,
                   monthVars, hudVars, beyondNote>>

\* The auto-dismiss timeout of the effect fires.
AutoDismissFires ==
    /\ autoDismiss # NoTimer /\ autoDismiss.due <= noteClock
    /\ handleDismiss(FALSE)
    /\ autoDismiss' = NoTimer
    /\ UNCHANGED <<notification, isVisible, noteClock, noteLog>>
    /\ UNCHANGED <<uiVars, gameVars, compVars, disasterVars, trafficVars, saveVars,
                   monthVars, hudVars, beyondNote>>

\* A timeout of handleDismiss fires: clearNotification(), setIsExiting(false),
\* setIsVisible(false); the effect runs when the store's notification changed.
ExitTimerFires ==
    /\ \E timer \in exitTimers :
           /\ timer.due <= noteClock
           /\ exitTimers' = exitTimers \ {timer}
           /\ notification' = 0
           /\ isExiting' = FALSE
           /\ isVisible' = FALSE
           /\ autoDismiss' = IF notification # 0 THEN NoTimer ELSE autoDismiss
           /\ noteLog' = [noteLog EXCEPT !.cleared = notification, !.by = timer,
                                         !.at = noteClock]
    /\ UNCHANGED noteClock
    /\ UNCHANGED <<uiVars, gameVars, compVars, disasterVars, trafficVars, saveVars,
                   monthVars, hudVars, beyondNote>>

\* The times at which a pending timeout is due.
DueTimes ==
    {timer.due : timer \in exitTimers} \cup
    (IF autoDismiss # NoTimer THEN {autoDismiss.due} ELSE {})

\* Time passes, up to the next timeout: by one step, or to the next timeout.
TimePasses ==
    /\ \A due \in DueTimes : due > noteClock
    /\ \E t \in {noteClock + ClockStep} \cup DueTimes :
           /\ t <= MaxNoteTime
           /\ \A due \in DueTimes : t <= due
           /\ noteClock' = t
    /\ UNCHANGED <<notification, isVisible, isExiting, autoDismiss, exitTimers, noteLog>>
    /\ UNCHANGED <<uiVars, gameVars, compVars, disasterVars, trafficVars, saveVars,
                   monthVars, hudVars, beyondNote>>

NextNote ==
    \/ ShowNotification
    \/ ClickClose
    \/ AutoDismissFires
    \/ ExitTimerFires
    \/ TimePasses

SpecNote == InitTimer /\ [][NextNote]_vars

\* C26 as stated: a notification stays the current one until the player
\* dismisses it, a newer one replaces it, or its own auto-dismiss timeout
\* (4000 ms) and the exit animation (300 ms) have passed; the pending dismissal
\* of an earlier notification never clears it.
C26_OwnDismissalOnly ==
    noteLog.cleared # 0 =>
        /\ noteLog.by.for = noteLog.cleared
        /\ (noteLog.by.manual
            \/ noteLog.at >= noteLog.shown[noteLog.cleared]
                             + AUTO_DISMISS_DURATION + ANIMATION_DURATION)

-----------------------------------------------------------------------------
(* AudioManager: src/src/utils/AudioManager.ts *)

\* loadPreferences: the mute state and the volumes the constructor reads.
loadPreferences(prefs) ==
    [isMuted |-> IF prefs.muted # "null" THEN prefs.muted = "true" ELSE FALSE,
     musicVolume |-> IF prefs.music # -1
                     THEN Max(0, Min(FullVolume, prefs.music))
                     ELSE DefaultMusicVolume,
     sfxVolume |-> IF prefs.sfx # -1
                   THEN Max(0, Min(FullVolume, prefs.sfx))
                   ELSE DefaultSfxVolume]

\* savePreferences, after the call has set its fields; a localStorage that is
\* not available keeps what it has.
savePreferences(available) ==
    audioPrefs' = IF available
                  THEN [muted |-> IF isMuted' THEN "true" ELSE "false",
                        music |-> musicVolume', sfx |-> sfxVolume']
                  ELSE audioPrefs

\* The music elements and the sound effects once preload() has run.
preloadedMusic ==
    IF isPreloaded THEN music
    ELSE [a \in MusicElements |->
              [volume |-> IF isMuted THEN 0 ELSE musicVolume, paused |-> TRUE]]
preloadedSounds ==
    IF isPreloaded THEN soundVolume
    ELSE IF isMuted THEN 0 ELSE sfxVolume

\* fadeAudio: the fade that replaces the running one of the element.
fadeAudio(fromVolume, toVolume, pauses) ==
    [fromVolume |-> fromVolume, volumeStep |-> (toVolume - fromVolume) \div steps,
     toVolume |-> toVolume, currentStep |-> 0, pauses |-> pauses]

\* The log after a call: whether the call has played a sound effect.
Called(played) ==
    audioLog' = [ops |-> audioLog.ops + 1, played |-> played]

\* playMusic and playMenuMusic, on the music element a.
playMusic(a, fadeIn, allowed) ==
    LET targetVolume == IF isMuted THEN 0 ELSE musicVolume
    IN  /\ isPreloaded' = TRUE
        /\ soundVolume' = preloadedSounds
        /\ IF fadeIn /\ ~isMuted
           THEN /\ music' = [preloadedMusic EXCEPT ![a] = [volume |-> 0, paused |-> FALSE]]
                /\ playPromises' = [playPromises EXCEPT ![a] = Append(@, targetVolume)]
           ELSE /\ music' = [preloadedMusic EXCEPT
                                 ![a] = [volume |-> targetVolume,
                                         paused |-> IF allowed THEN FALSE ELSE @.paused]]
                /\ UNCHANGED playPromises
        /\ UNCHANGED fadeIntervals

\* stopMusic and stopMenuMusic, on the music element a.
stopMusic(a, fadeOut) ==
    IF ~isPreloaded
    THEN UNCHANGED <<music, fadeIntervals>>
    ELSE IF fadeOut /\ music[a].volume > 0
         THEN /\ fadeIntervals' = [fadeIntervals EXCEPT
                                       ![a] = fadeAudio(music[a].volume, 0, TRUE)]
              /\ UNCHANGED music
         ELSE /\ music' = [music EXCEPT ![a].paused = TRUE]
              /\ UNCHANGED fadeIntervals

\* The model starts a fade-out from the volumes 0.02, 0.04, ... only, which
\* its units divide into the steps.
Divisible(a, fadeOut) == fadeOut => music[a].volume % DefaultMusicVolume = 0

Preload ==
    /\ audioLog.ops < MaxAudioOps
    /\ isPreloaded' = TRUE
    /\ music' = preloadedMusic
    /\ soundVolume' = preloadedSounds
    /\ Called(FALSE)
    /\ UNCHANGED <<isMuted, musicVolume, sfxVolume, fadeIntervals, playPromises,
                   crossfadeTimers, audioPrefs>>

PlayMusic ==
    /\ audioLog.ops < MaxAudioOps
    /\ \E a \in MusicElements, fadeIn \in BOOLEAN, allowed \in BOOLEAN :
           playMusic(a, fadeIn, allowed)
    /\ Called(FALSE)
    /\ UNCHANGED <<isMuted, musicVolume, sfxVolume, crossfadeTimers, audioPrefs>>

StopMusic ==
    /\ audioLog.ops < MaxAudioOps
    /\ \E a \in MusicElements, fadeOut \in BOOLEAN :
           /\ Divisible(a, fadeOut)
           /\ stopMusic(a, fadeOut)
    /\ Called(FALSE)
    /\ UNCHANGED <<isMuted, musicVolume, sfxVolume, isPreloaded, soundVolume,
                   playPromises, crossfadeTimers, audioPrefs>>

\* The play() promise of a fade-in resolves: the fade to the volume the call
\* computed starts.
PlayResolves ==
    \E a \in MusicElements :
        /\ playPromises[a] # <<>>
        /\ playPromises' = [playPromises EXCEPT ![a] = Tail(@)]
        /\ fadeIntervals' = [fadeIntervals EXCEPT
                                 ![a] = fadeAudio(0, Head(playPromises[a]), FALSE)]
        /\ music' = [music EXCEPT ![a].volume = 0]
        /\ UNCHANGED <<isMuted, musicVolume, sfxVolume, isPreloaded, soundVolume,
                       crossfadeTimers, audioPrefs, audioLog>>

\* The play() promise of a fade-in is rejected: autoplay was prevented.
PlayRejects ==
    \E a \in MusicElements :
        /\ playPromises[a] # <<>>
        /\ playPromises' = [playPromises EXCEPT ![a] = Tail(@)]
        /\ music' = [music EXCEPT ![a].paused = TRUE]
        /\ UNCHANGED <<isMuted, musicVolume, sfxVolume, isPreloaded, soundVolume,
                       fadeIntervals, crossfadeTimers, audioPrefs, audioLog>>

\* The interval callback of fadeAudio for the element a.
FadeStep ==
    \E a \in MusicElements :
        LET fade == fadeIntervals[a]
            currentStep == fade.currentStep + 1
            newVolume == Max(0, Min(FullVolume,
                                    fade.fromVolume + fade.volumeStep * currentStep))
        IN  /\ fade # NoFade
            /\ IF currentStep >= steps
               THEN /\ fadeIntervals' = [fadeIntervals EXCEPT ![a] = NoFade]
                    /\ music' = [music EXCEPT
                                     ![a] = [volume |-> fade.toVolume,
                                             paused |-> IF fade.pauses THEN TRUE
                                                        ELSE @.paused]]
               ELSE /\ fadeIntervals' = [fadeIntervals EXCEPT
                                             ![a].currentStep = currentStep]
                    /\ music' = [music EXCEPT ![a].volume = newVolume]
            /\ UNCHANGED <<isMuted, musicVolume, sfxVolume, isPreloaded, soundVolume,
                           playPromises, crossfadeTimers, audioPrefs, audioLog>>

CrossfadeToGameMusic ==
    /\ audioLog.ops < MaxAudioOps
    /\ Divisible("menuMusic", TRUE)
    /\ stopMusic("menuMusic", TRUE)
    /\ crossfadeTimers' = crossfadeTimers + 1
    /\ Called(FALSE)
    /\ UNCHANGED <<isMuted, musicVolume, sfxVolume, isPreloaded, soundVolume,
                   playPromises, audioPrefs>>

\* The timeout of crossfadeToGameMusic.
CrossfadeTimerFires ==
    /\ crossfadeTimers > 0
    /\ crossfadeTimers' = crossfadeTimers - 1
    /\ playMusic("bgMusic", TRUE, TRUE)
    /\ UNCHANGED <<isMuted, musicVolume, sfxVolume, audioPrefs, audioLog>>

PauseMusic ==
    /\ audioLog.ops < MaxAudioOps
    /\ music' = IF isPreloaded THEN [music EXCEPT !["bgMusic"].paused = TRUE] ELSE music
    /\ Called(FALSE)
    /\ UNCHANGED <<isMuted, musicVolume, sfxVolume, isPreloaded, soundVolume,
                   fadeIntervals, playPromises, crossfadeTimers, audioPrefs>>

ResumeMusic ==
    /\ audioLog.ops < MaxAudioOps
    /\ \E allowed \in BOOLEAN :
           music' = IF isPreloaded /\ music["bgMusic"].paused /\ allowed
                    THEN [music EXCEPT !["bgMusic"].paused = FALSE]
                    ELSE music
    /\ Called(FALSE)
    /\ UNCHANGED <<isMuted, musicVolume, sfxVolume, isPreloaded, soundVolume,
                   fadeIntervals, playPromises, crossfadeTimers, audioPrefs>>

\* playSound: a clone of the sound is played at sfxVolume unless muted.
PlaySound ==
    /\ audioLog.ops < MaxAudioOps
    /\ IF isMuted
       THEN /\ Called(FALSE)
            /\ UNCHANGED <<isPreloaded, music, soundVolume>>
       ELSE /\ isPreloaded' = TRUE
            /\ music' = preloadedMusic
            /\ soundVolume' = preloadedSounds
            /\ Called(TRUE)
    /\ UNCHANGED <<isMuted, musicVolume, sfxVolume, fadeIntervals, playPromises,
                   crossfadeTimers, audioPrefs>>

SetMusicVolume ==
    /\ audioLog.ops < MaxAudioOps
    /\ \E volume \in MusicVolumes, available \in BOOLEAN :
           /\ musicVolume' = Max(0, Min(FullVolume, volume))
           /\ music' = IF ~isMuted /\ isPreloaded
                       THEN [a \in MusicElements |->
                                 [music[a] EXCEPT !.volume = musicVolume']]
                       ELSE music
           /\ UNCHANGED <<isMuted, sfxVolume>>
           /\ savePreferences(available)
    /\ Called(FALSE)
    /\ UNCHANGED <<isPreloaded, soundVolume, fadeIntervals, playPromises, crossfadeTimers>>

SetSfxVolume ==
    /\ audioLog.ops < MaxAudioOps
    /\ \E volume \in SfxVolumes, available \in BOOLEAN :
           /\ sfxVolume' = Max(0, Min(FullVolume, volume))
           /\ soundVolume' = IF ~isMuted /\ isPreloaded THEN sfxVolume' ELSE soundVolume
           /\ UNCHANGED <<isMuted, musicVolume>>
           /\ savePreferences(available)
    /\ Called(FALSE)
    /\ UNCHANGED <<isPreloaded, music, fadeIntervals, playPromises, crossfadeTimers>>

\* toggleMute: the volume of every loaded element follows the new mute state.
toggleMute(available) ==
    /\ isMuted' = ~isMuted
    /\ music' = IF isPreloaded
                THEN [a \in MusicElements |->
                          [music[a] EXCEPT !.volume = IF isMuted' THEN 0 ELSE musicVolume]]
                ELSE music
    /\ soundVolume' = IF isPreloaded
                      THEN IF isMuted' THEN 0 ELSE sfxVolume
                      ELSE soundVolume
    /\ UNCHANGED <<musicVolume, sfxVolume>>
    /\ savePreferences(available)

ToggleMute ==
    /\ audioLog.ops < MaxAudioOps
    /\ \E available \in BOOLEAN : toggleMute(available)
    /\ Called(FALSE)
    /\ UNCHANGED <<isPreloaded, fadeIntervals, playPromises, crossfadeTimers>>

SetMuted ==
    /\ audioLog.ops < MaxAudioOps
    /\ \E muted \in BOOLEAN, available \in BOOLEAN :
           IF isMuted # muted
           THEN toggleMute(available)
           ELSE UNCHANGED <<isMuted, music, soundVolume, musicVolume, sfxVolume, audioPrefs>>
    /\ Called(FALSE)
    /\ UNCHANGED <<isPreloaded, fadeIntervals, playPromises, crossfadeTimers>>

Elsewhere ==
    UNCHANGED <<uiVars, gameVars, compVars, disasterVars, trafficVars, saveVars,
                monthVars, hudVars, noteVars>>

NextAudio ==
    \/ Preload /\ Elsewhere
    \/ PlayMusic /\ Elsewhere
    \/ StopMusic /\ Elsewhere
    \/ PlayResolves /\ Elsewhere
    \/ PlayRejects /\ Elsewhere
    \/ FadeStep /\ Elsewhere
    \/ CrossfadeToGameMusic /\ Elsewhere
    \/ CrossfadeTimerFires /\ Elsewhere
    \/ PauseMusic /\ Elsewhere
    \/ ResumeMusic /\ Elsewhere
    \/ PlaySound /\ Elsewhere
    \/ SetMusicVolume /\ Elsewhere
    \/ SetSfxVolume /\ Elsewhere
    \/ ToggleMute /\ Elsewhere
    \/ SetMuted /\ Elsewhere

\* The AudioManager as its constructor leaves it, for the preferences an
\* earlier session has stored.
InitAudio ==
    /\ UIInit
    /\ isInitialized = FALSE
    /\ ComponentIdle
    /\ tiles = Town(House, Shop, Road, Water)
    /\ powerPlants = <<>>
    /\ waterPumps = <<>>
    /\ spreadChance = FIRE_spreadChance
    /\ DisasterInit
    /\ SaveIdle
    /\ TrafficIdle
    /\ MonthIdle
    /\ HudIdle
    /\ NoteIdle
    /\ audioPrefs \in {NoPrefs} \cup StoredPrefs
    /\ isMuted = loadPreferences(audioPrefs).isMuted
    /\ musicVolume = loadPreferences(audioPrefs).musicVolume
    /\ sfxVolume = loadPreferences(audioPrefs).sfxVolume
    /\ isPreloaded = FALSE
    /\ music = [a \in MusicElements |-> [volume |-> 0, paused |-> TRUE]]
    /\ soundVolume = 0
    /\ fadeIntervals = [a \in MusicElements |-> NoFade]
    /\ playPromises = [a \in MusicElements |-> <<>>]
    /\ crossfadeTimers = 0
    /\ audioLog = [ops |-> 0, played |-> FALSE]

SpecAudio == InitAudio /\ [][NextAudio]_vars

\* C28: while the audio manager is muted, the volume of the background music
\* and of the menu music is 0, also while a fade started before the mute is
\* running, and playSound plays nothing.
C28_MutedIsSilent ==
    isMuted =>
        /\ \A a \in MusicElements : music[a].volume = 0
        /\ ~audioLog.played

====
